---- MODULE Spec2Model ----
(***************************************************************************)
(* A model of spcplayer, an emulator of the SNES audio unit: the memory    *)
(* fabric with its memory-mapped registers, the three timers, the DSP      *)
(* voice engine and the scheduler loop of main().  The definitions keep    *)
(* the names of the C functions they are translated from.                  *)
(*                                                                         *)
(* The emulator state (spc_state_t) is one record, `state'; a C function   *)
(* that takes `spc_state_t *state' is an operator from a state record to   *)
(* the state record it leaves (and, where the function returns a value, a  *)
(* record [val, s]).                                                       *)
(***************************************************************************)
EXTENDS Integers, Sequences, FiniteSets, TLC

VARIABLES
    state,              \* spc_state_t state of main(): ram, dsp_registers, timers, voices, cycle, ...
    next_audio_sample,  \* main()'s local: the cycle at which the next sample pair is due
    last_op,            \* observation: what the last step did (operation, address, value written)
    last_ret,           \* observation: the value returned by the last read (or -1)
    mix_cycles,         \* observation: the cycle counter at the last mixer call, and the cycles since the one before
    mix_out,            \* observation: the last pair handed to the audio sink, and the voice sums it was made from
    koff_at,            \* observation: per voice, the envelope and sample count at its pending key-off
    ticks,              \* observation: per timer, the ticks it has taken since Control was last written
    nops,               \* observation: the number of memory accesses so far
    audio_buf,          \* buf_t: the circular buffer (size, len, head, tail, data)
    fifo,               \* observation: the samples added to audio_buf and not yet returned, oldest first
    sink                \* where main() is in its sample block (with playing, left, right), who holds the
                        \* audio device lock, and the len of the running audio_callback

vars == <<state, next_audio_sample, last_op, last_ret, mix_cycles, mix_out, koff_at, ticks, nops,
          audio_buf, fifo, sink>>

-----------------------------------------------------------------------------
(* Program constants *)

AUDIO_SAMPLE_PERIOD == (2048 * 1000) \div 32000
SPC_NB_VOICES == 8
SPC_DSP_REGISTERS == 128
SPC_RAM_SIZE == 65536
AUDIO_BUFFER_SIZE == 8000

SPC_REG_CONTROL == \hF1
SPC_REG_TIMER0 == \hFA
SPC_REG_COUNTER0 == \hFD
SPC_REG_COUNTER2 == \hFF

SPC_TIMER_CYCLES_8KHZ == 256
SPC_TIMER_CYCLES_64KHZ == 32

SPC_DSP_ENV_MAX == 2^11

SPC_DSP_MVOLL == \h0C
SPC_DSP_MVOLR == \h1C
SPC_DSP_KON == \h4C
SPC_DSP_KOFF == \h5C
SPC_DSP_DIR == \h5D
SPC_DSP_FLG == \h6C
SPC_DSP_ENDX == \h7C

SPC_FLG_MUTE == 2^6
SPC_FLG_RESET == 2^7

SPC_DSP_VxVOLL == \h00
SPC_DSP_VxVOLR == \h01
SPC_DSP_VxPITCHL == \h02
SPC_DSP_VxPITCHH == \h03
SPC_DSP_VxSCRN == \h04
SPC_DSP_VxADSR1 == \h05
SPC_DSP_VxADSR2 == \h06
SPC_DSP_VxGAIN == \h07
SPC_DSP_VxENVX == \h08
SPC_DSP_VxOUTX == \h09

SPC_VOICE_ATTACK == "Attack"
SPC_VOICE_DECAY == "Decay"
SPC_VOICE_SUSTAIN == "Sustain"
SPC_VOICE_RELEASE == "Release"

STATIC_GAIN == 16

-----------------------------------------------------------------------------
(* Integer helpers: the C types and operators the code relies on *)

\* x >> n on a signed int: an arithmetic shift (floor division)
Shr(x, n) == x \div (2^n)

\* x << n: multiplication; the code shifts negative values too, which the build
\* compiles to the arithmetic result
Shl(x, n) == x * (2^n)

\* (v & (1 << bit)) != 0
BitSet(v, bit) == (v \div (2^bit)) % 2 = 1

\* v | (1 << bit)
SetBit(v, bit) == IF BitSet(v, bit) THEN v ELSE v + 2^bit

ToU8(x) == x % 256
ToU16(x) == x % 65536
ToS16(x) == ((x + 32768) % 65536) - 32768

\* an `int i : 4' bit-field (nibble_t)
ToS4(x) == ((x + 8) % 16) - 8

\* an `int i : 15' bit-field (signed_15bit_t)
ToS15(x) == ((x + 16384) % 32768) - 16384

Timers == 0 .. 2
Voices == 0 .. (SPC_NB_VOICES - 1)

\* make16(high, low)
make16(high, low) == ToU16(Shl(high, 8)) + low

\* get_low(word), get_high(word)
get_low(word) == word % 256
get_high(word) == (word \div 256) % 256

\* state->ram[addr]; the RAM image is zero outside the cells the model keeps
Ram(s, addr) == IF addr \in DOMAIN s.ram THEN s.ram[addr] ELSE 0

\* state->ram[addr] = val
RamStore(s, addr, val) ==
    [s EXCEPT !.ram = [a \in (DOMAIN s.ram) \cup {addr} |-> IF a = addr THEN val ELSE Ram(s, a)]]

-----------------------------------------------------------------------------
(* Timers *)

TIMER_CYCLES == <<SPC_TIMER_CYCLES_8KHZ, SPC_TIMER_CYCLES_8KHZ, SPC_TIMER_CYCLES_64KHZ>>

\* A read_counter that returns the counter and leaves it as it is
read_counter_keep(s, addr) ==
    [val |-> s.timers.counter[addr - SPC_REG_COUNTER0], s |-> s]

\* read_counter(state, addr): returns the counter and resets it
read_counter(s, addr) ==
    LET counter_nr == addr - SPC_REG_COUNTER0
    IN  [val |-> s.timers.counter[counter_nr],
         s   |-> [s EXCEPT !.timers.counter[counter_nr] = 0]]

\* An update_counter that compares the pre-divider with the divisor before
\* incrementing it
update_counter_late(s, timer) ==
    IF BitSet(Ram(s, SPC_REG_CONTROL), timer) /\ s.cycle >= s.timers.next_timer[timer]
    THEN LET hit == (s.timers.timer[timer] = s.timers.divisor[timer])
         IN  [s EXCEPT !.timers.next_timer[timer] = s.cycle + TIMER_CYCLES[timer + 1],
                       !.timers.timer[timer] = IF hit THEN 0 ELSE ToU8(@ + 1),
                       !.timers.counter[timer] = IF hit THEN (@ + 1) % 16 ELSE @]
    ELSE s

\* One iteration of the loop of update_counters, for timer `timer'
update_counter(s, timer) ==
    IF BitSet(Ram(s, SPC_REG_CONTROL), timer) /\ s.cycle >= s.timers.next_timer[timer]
    THEN LET t1 == ToU8(s.timers.timer[timer] + 1)
             hit == (t1 = s.timers.divisor[timer])
         IN  [s EXCEPT !.timers.next_timer[timer] = s.cycle + TIMER_CYCLES[timer + 1],
                       !.timers.timer[timer] = IF hit THEN 0 ELSE t1,
                       !.timers.counter[timer] =
                            IF hit THEN (s.timers.counter[timer] + 1) % 16
                                   ELSE s.timers.counter[timer]]
    ELSE s

\* update_counters(state): timers 0, 1, 2 in turn
update_counters(s) == update_counter(update_counter(update_counter(s, 0), 1), 2)

\* clear_timer(state, timer)
clear_timer(s, timer) ==
    [s EXCEPT !.timers.next_timer[timer] = 0,
              !.timers.counter[timer] = 0,
              !.timers.timer[timer] = 0,
              !.timers.divisor[timer] = Ram(s, SPC_REG_TIMER0 + timer)]

\* enable_timer(state, timer)
enable_timer(s, timer) ==
    [s EXCEPT !.timers.next_timer[timer] = s.cycle + TIMER_CYCLES[timer + 1],
              !.timers.counter[timer] = 0,
              !.timers.timer[timer] = 0,
              !.timers.divisor[timer] = Ram(s, SPC_REG_TIMER0 + timer)]

-----------------------------------------------------------------------------
(* Memory fabric: reads *)

\* register_read(state, addr), for addr in 0xF0..0xFF
register_read(s, addr) ==
    IF addr = \hF3
    THEN [val |-> s.dsp_registers[s.current_dsp_register], s |-> s]
    ELSE IF addr \in SPC_REG_COUNTER0 .. SPC_REG_COUNTER2
    THEN read_counter(s, addr)
    ELSE [val |-> Ram(s, addr), s |-> s]

\* read_byte(state, addr)
read_byte(s, addr) ==
    IF (addr \div 16) * 16 = \h00F0
    THEN register_read(s, addr)
    ELSE [val |-> Ram(s, addr), s |-> s]

\* read_word(state, addr): the low byte at addr, the high byte at addr + 1 (a Uint16)
read_word(s, addr) ==
    LET l == read_byte(s, addr)
        h == read_byte(l.s, ToU16(addr + 1))
    IN  [val |-> make16(h.val, l.val), s |-> h.s]

-----------------------------------------------------------------------------
(* DSP register file *)

\* get_dsp(state, reg)
get_dsp(s, reg) == s.dsp_registers[reg]

\* get_dsp_voice(state, voice_nr, reg)
get_dsp_voice(s, voice_nr, reg) == get_dsp(s, ToU8(voice_nr * 16 + reg))

\* set_dsp_voice(state, voice_nr, reg, val)
set_dsp_voice(s, voice_nr, reg, val) ==
    [s EXCEPT !.dsp_registers[ToU8(voice_nr * 16 + reg)] = val]

\* get_sample_addr(state, voice_nr, loop): the directory entry is read with
\* read_word, so through the register window when it lies in 0x00F0..0x00FF
get_sample_addr(s, voice_nr, loop) ==
    LET dir == s.dsp_registers[SPC_DSP_DIR]
        voice_srcn == s.dsp_registers[voice_nr * 16 + SPC_DSP_VxSCRN]
        addr_ptr == ToU16(dir * 256 + voice_srcn * 4)
    IN  IF loop # 0 THEN read_word(s, ToU16(addr_ptr + 2))
                    ELSE read_word(s, addr_ptr)

\* get_voice_pitch(state, voice_nr): 14 bits
get_voice_pitch(s, voice_nr) ==
    make16(get_dsp_voice(s, voice_nr, SPC_DSP_VxPITCHH) % 64,
           get_dsp_voice(s, voice_nr, SPC_DSP_VxPITCHL))

-----------------------------------------------------------------------------
(* BRR decoding *)

\* v->block == NULL
NoBlock == [null |-> TRUE]

\* do_filter(filter, new, prev): prev is <<prev[0], prev[1]>>; returns the
\* output sample and the array as the function leaves it
do_filter(filter, new, prev) ==
    LET p0 == prev[1]
        p1 == prev[2]
        out == CASE filter = 0 -> new
                 [] filter = 1 -> new + (p1 * 1) + Shr((-p1) * 1, 4)
                 [] filter = 2 -> new + (p1 * 2) + Shr((-p1) * 3, 5) - p0 + Shr(p0 * 1, 4)
                 [] filter = 3 -> new + (p1 * 2) + Shr((-p1) * 13, 6) - p0 + Shr(p0 * 3, 4)
    IN  [out |-> ToS16(out), prev |-> <<p1, new>>]

\* The scaling of one sign-extended nibble in decode_brr_block
ScaleNibble(nib, range) ==
    LET dst == ToS4(nib)
    IN  IF range <= 12 THEN ToS16(Shr(Shl(dst, range), 1))
                       ELSE ToS16(Shr(Shl(Shr(dst, 3), 12), 1))

\* The nibble loop of decode_brr_block: nibbles n..15 of the block at addr,
\* high nibble of each byte first
RECURSIVE DecodeNibbles(_, _, _, _, _, _, _)
DecodeNibbles(s, addr, filter, range, n, prev, samples) ==
    IF n = 16 THEN [samples |-> samples, prev |-> prev]
    ELSE LET b == Ram(s, addr + 1 + (n \div 2))
             nib == IF n % 2 = 0 THEN (b \div 16) % 16 ELSE b % 16
             f == do_filter(filter, ScaleNibble(nib, range), prev)
         IN  DecodeNibbles(s, addr, filter, range, n + 1, f.prev, Append(samples, f.out))

\* decode_brr_block(v, &state->ram[addr]) for voice voice_nr: the state with
\* the voice's block replaced and its prev_brr as the filter leaves it.  The
\* block also records the address it was decoded from (not a field of
\* brr_block_t; kept for the voice invariant).
decode_brr_block(s, voice_nr, addr) ==
    LET b == Ram(s, addr)
        range == (b \div 16) % 16
        filter == (b \div 4) % 4
        d == DecodeNibbles(s, addr, filter, range, 0, s.voices[voice_nr].prev_brr, <<>>)
    IN  [s EXCEPT !.voices[voice_nr].block =
                        [null |-> FALSE,
                         samples |-> d.samples,
                         filter |-> filter,
                         loop_flag |-> (b \div 2) % 2,
                         last_chunk |-> b % 2,
                         loop_code |-> b % 4,
                         addr |-> addr],
                  !.voices[voice_nr].prev_brr = d.prev]

\* decode_adsr(state, voice_nr, &v->adsr)
decode_adsr(s, voice_nr) ==
    LET adsr1 == get_dsp_voice(s, voice_nr, SPC_DSP_VxADSR1)
        adsr2 == get_dsp_voice(s, voice_nr, SPC_DSP_VxADSR2)
        gain == get_dsp_voice(s, voice_nr, SPC_DSP_VxGAIN)
    IN  [s EXCEPT !.voices[voice_nr].adsr.ar = adsr1 % 16,
                  !.voices[voice_nr].adsr.dr = (adsr1 \div 16) % 8,
                  !.voices[voice_nr].adsr.use_adsr = (adsr1 \div 128) % 2,
                  !.voices[voice_nr].adsr.sr = adsr2 % 32,
                  !.voices[voice_nr].adsr.sl = (adsr2 \div 32) % 8,
                  !.voices[voice_nr].adsr.rr = 31,
                  !.voices[voice_nr].adsr.gain = gain,
                  !.voices[voice_nr].adsr.gain_mode = gain \div 32]

\* decode_next_brr_block(state, voice_nr): val is 1 if another block could be
\* decoded, 0 if this is it
decode_next_brr_block(s, voice_nr) ==
    LET v == s.voices[voice_nr]
        ends == (v.block.last_chunk = 1 /\ v.block.loop_flag = 0)
        loops == (v.block.last_chunk = 1 /\ v.block.loop_flag = 1)
        la == get_sample_addr(s, voice_nr, 1)
        s1 == IF loops
              THEN [la.s EXCEPT !.voices[voice_nr].cur_addr = la.val]
              ELSE [s EXCEPT !.voices[voice_nr].cur_addr = ToU16(v.cur_addr + 9)]
        s2 == [s1 EXCEPT !.voices[voice_nr].block = NoBlock]
        s3 == decode_brr_block(s2, voice_nr, s2.voices[voice_nr].cur_addr)
        nb == s3.voices[voice_nr].block
        s4 == IF nb.last_chunk = 1
              THEN LET s5 == IF nb.loop_flag = 1 THEN s3
                             ELSE [s3 EXCEPT !.voices[voice_nr].adsr.cur_phase = SPC_VOICE_RELEASE,
                                             !.voices[voice_nr].adsr.env = 0]
                   IN  [s5 EXCEPT !.dsp_registers[SPC_DSP_ENDX] = SetBit(@, voice_nr)]
              ELSE s3
    IN  IF ends THEN [val |-> 0, s |-> s2]
        ELSE [val |-> IF nb.last_chunk = 1 /\ nb.loop_flag = 0 THEN 0 ELSE 1, s |-> s4]

ATTACK_RATE ==
  <<2050, 1300, 750, 500, 320, 190, 130, 80, 48, 32, 20, 12, 8, 5, 3, 0>>

SUSTAIN_LEVEL ==
  <<256, 512, 768, 1024, 1280, 1536, 1792, 2048>>

DECAY_RATE ==
  <<
    <<72, 108, 152, 215, 317, 518, 1097, 0>>,
    <<44, 66, 94, 133, 195, 320, 676, 0>>,
    <<26, 39, 56, 79, 116, 190, 402, 0>>,
    <<17, 26, 36, 52, 76, 125, 265, 0>>,
    <<10, 16, 22, 32, 47, 77, 164, 0>>,
    <<6, 9, 14, 19, 29, 47, 100, 0>>,
    <<4, 6, 9, 13, 19, 32, 67, 0>>,
    <<2, 3, 4, 6, 9, 16, 33, 0>>
  >>

SUSTAIN_RATE ==
  <<
    <<0, 0, 0, 0, 0, 0, 0, 0>>,
    <<1208, 1027, 944, 894, 858, 830, 809, 791>>,
    <<890, 757, 696, 658, 632, 612, 596, 582>>,
    <<763, 649, 596, 564, 541, 524, 510, 499>>,
    <<604, 513, 472, 447, 429, 415, 404, 395>>,
    <<445, 378, 348, 329, 316, 306, 298, 291>>,
    <<381, 324, 298, 282, 270, 262, 255, 249>>,
    <<299, 254, 233, 221, 212, 205, 200, 195>>,
    <<225, 192, 176, 167, 160, 155, 151, 147>>,
    <<187, 159, 146, 138, 133, 128, 125, 122>>,
    <<149, 127, 116, 110, 106, 102, 100, 97>>,
    <<111, 94, 87, 82, 79, 76, 74, 72>>,
    <<92, 78, 72, 68, 65, 63, 61, 60>>,
    <<76, 64, 59, 56, 54, 52, 51, 49>>,
    <<57, 48, 44, 42, 40, 39, 38, 37>>,
    <<47, 40, 37, 35, 33, 32, 31, 31>>,
    <<38, 32, 29, 28, 27, 26, 25, 24>>,
    <<27, 23, 21, 20, 19, 19, 18, 18>>,
    <<23, 20, 18, 17, 16, 16, 15, 15>>,
    <<18, 15, 14, 13, 13, 12, 12, 12>>,
    <<13, 11, 10, 10, 9, 9, 9, 9>>,
    <<11, 10, 9, 8, 8, 8, 7, 7>>,
    <<9, 7, 7, 6, 6, 6, 6, 6>>,
    <<6, 5, 5, 5, 4, 4, 4, 4>>,
    <<5, 4, 4, 4, 4, 3, 3, 3>>,
    <<4, 4, 3, 3, 3, 3, 3, 3>>,
    <<3, 2, 2, 2, 2, 2, 2, 2>>,
    <<2, 2, 2, 2, 2, 2, 1, 1>>,
    <<2, 2, 1, 1, 1, 1, 1, 1>>,
    <<1, 1, 1, 1, 1, 1, 1, 1>>,
    <<1, 1, 0, 0, 0, 0, 0, 0>>,
    <<0, 0, 0, 0, 0, 0, 0, 0>>
  >>

GAIN_LINEAR ==
  <<0, 2050, 1550, 1300, 1000, 750, 650, 500, 385, 320, 255, 190, 160, 130, 95, 80, 65, 48, 40, 32, 24, 20, 16, 12, 10, 8, 6, 5, 4, 3, 2, 1>>

GAIN_BENT ==
  <<0, 2057, 1542, 1314, 1000, 742, 657, 514, 371, 314, 257, 191, 160, 128, 97, 80, 62, 48, 40, 31, 24, 20, 16, 12, 10, 8, 6, 5, 4, 3, 2, 1>>

INTERP_TABLE ==
  <<
    0, 0, 0, 0, 0, 0, 0, 0, 0, 0, 0, 0, 0, 0, 0, 0,
    1, 1, 1, 1, 1, 1, 1, 1, 1, 1, 1, 2, 2, 2, 2, 2,
    2, 2, 3, 3, 3, 3, 3, 4, 4, 4, 4, 4, 5, 5, 5, 5,
    6, 6, 6, 6, 7, 7, 7, 8, 8, 8, 9, 9, 9, 10, 10, 10,
    11, 11, 11, 12, 12, 13, 13, 14, 14, 15, 15, 15, 16, 16, 17, 17,
    18, 19, 19, 20, 20, 21, 21, 22, 23, 23, 24, 24, 25, 26, 27, 27,
    28, 29, 29, 30, 31, 32, 32, 33, 34, 35, 36, 36, 37, 38, 39, 40,
    41, 42, 43, 44, 45, 46, 47, 48, 49, 50, 51, 52, 53, 54, 55, 56,
    58, 59, 60, 61, 62, 64, 65, 66, 67, 69, 70, 71, 73, 74, 76, 77,
    78, 80, 81, 83, 84, 86, 87, 89, 90, 92, 94, 95, 97, 99, 100, 102,
    104, 106, 107, 109, 111, 113, 115, 117, 118, 120, 122, 124, 126, 128, 130, 132,
    134, 137, 139, 141, 143, 145, 147, 150, 152, 154, 156, 159, 161, 163, 166, 168,
    171, 173, 175, 178, 180, 183, 186, 188, 191, 193, 196, 199, 201, 204, 207, 210,
    212, 215, 218, 221, 224, 227, 230, 233, 236, 239, 242, 245, 248, 251, 254, 257,
    260, 263, 267, 270, 273, 276, 280, 283, 286, 290, 293, 297, 300, 304, 307, 311,
    314, 318, 321, 325, 328, 332, 336, 339, 343, 347, 351, 354, 358, 362, 366, 370,
    374, 378, 381, 385, 389, 393, 397, 401, 405, 410, 414, 418, 422, 426, 430, 434,
    439, 443, 447, 451, 456, 460, 464, 469, 473, 477, 482, 486, 491, 495, 499, 504,
    508, 513, 517, 522, 527, 531, 536, 540, 545, 550, 554, 559, 563, 568, 573, 577,
    582, 587, 592, 596, 601, 606, 611, 615, 620, 625, 630, 635, 640, 644, 649, 654,
    659, 664, 669, 674, 678, 683, 688, 693, 698, 703, 708, 713, 718, 723, 728, 732,
    737, 742, 747, 752, 757, 762, 767, 772, 777, 782, 787, 792, 797, 802, 806, 811,
    816, 821, 826, 831, 836, 841, 846, 851, 855, 860, 865, 870, 875, 880, 884, 889,
    894, 899, 904, 908, 913, 918, 923, 927, 932, 937, 941, 946, 951, 955, 960, 965,
    969, 974, 978, 983, 988, 992, 997, 1001, 1005, 1010, 1014, 1019, 1023, 1027, 1032, 1036,
    1040, 1045, 1049, 1053, 1057, 1061, 1066, 1070, 1074, 1078, 1082, 1086, 1090, 1094, 1098, 1102,
    1106, 1109, 1113, 1117, 1121, 1125, 1128, 1132, 1136, 1139, 1143, 1146, 1150, 1153, 1157, 1160,
    1164, 1167, 1170, 1174, 1177, 1180, 1183, 1186, 1190, 1193, 1196, 1199, 1202, 1205, 1207, 1210,
    1213, 1216, 1219, 1221, 1224, 1227, 1229, 1232, 1234, 1237, 1239, 1241, 1244, 1246, 1248, 1251,
    1253, 1255, 1257, 1259, 1261, 1263, 1265, 1267, 1269, 1270, 1272, 1274, 1275, 1277, 1279, 1280,
    1282, 1283, 1284, 1286, 1287, 1288, 1290, 1291, 1292, 1293, 1294, 1295, 1296, 1297, 1297, 1298,
    1299, 1300, 1300, 1301, 1302, 1302, 1303, 1303, 1303, 1304, 1304, 1304, 1304, 1304, 1305, 1305
  >>

-----------------------------------------------------------------------------
(* Envelopes *)

\* An apply_adsr whose Attack, once finished, moves on to Sustain
apply_adsr_skip(s, voice_nr, sample) ==
    LET a == s.voices[voice_nr].adsr
        due == s.sample_counter >= a.next_counter
        decstep(env) == -(Shr(env - 1, 8) + 1)
        attack ==
            LET e1 == IF due THEN a.env + (IF a.ar = 15 THEN 1024 ELSE 32) ELSE a.env
                n1 == IF due THEN s.sample_counter + ATTACK_RATE[a.ar + 1] ELSE a.next_counter
            IN  IF e1 >= SPC_DSP_ENV_MAX
                THEN [a EXCEPT !.env = SPC_DSP_ENV_MAX, !.cur_phase = SPC_VOICE_SUSTAIN,
                               !.next_counter = s.sample_counter + 1]
                ELSE [a EXCEPT !.env = e1, !.next_counter = n1]
        decay ==
            LET e1 == IF due THEN a.env + decstep(a.env) ELSE a.env
                n1 == IF due THEN s.sample_counter + DECAY_RATE[a.dr + 1][a.sl + 1]
                             ELSE a.next_counter
            IN  IF e1 <= SUSTAIN_LEVEL[a.sl + 1]
                THEN [a EXCEPT !.env = SUSTAIN_LEVEL[a.sl + 1], !.cur_phase = SPC_VOICE_SUSTAIN,
                               !.next_counter = s.sample_counter + 1]
                ELSE [a EXCEPT !.env = e1, !.next_counter = n1]
        sustain ==
            LET e1 == IF due /\ a.sr > 0 THEN a.env + decstep(a.env) ELSE a.env
                n1 == IF due THEN s.sample_counter + SUSTAIN_RATE[a.sr + 1][a.sl + 1]
                             ELSE a.next_counter
            IN  [a EXCEPT !.env = IF e1 <= 0 THEN 0 ELSE e1, !.next_counter = n1]
        release ==
            IF a.env > 0
            THEN [a EXCEPT !.env = IF a.env - 8 <= 0 THEN 0 ELSE a.env - 8]
            ELSE a
        a2 == CASE a.cur_phase = SPC_VOICE_ATTACK -> attack
                [] a.cur_phase = SPC_VOICE_DECAY -> decay
                [] a.cur_phase = SPC_VOICE_SUSTAIN -> sustain
                [] a.cur_phase = SPC_VOICE_RELEASE -> release
        disable == a.cur_phase = SPC_VOICE_RELEASE /\ a.env > 0 /\ a.env - 8 <= 0
        s1 == [s EXCEPT !.voices[voice_nr].adsr = a2,
                        !.voices[voice_nr].enabled = IF disable THEN 0 ELSE @]
        envx == (a2.env \div 16) % 16
    IN  [val |-> ToS16(Shr(sample * a2.env, 11)),
         s   |-> set_dsp_voice(s1, voice_nr, SPC_DSP_VxENVX, envx)]

\* apply_adsr(state, voice_nr, sample)
apply_adsr(s, voice_nr, sample) ==
    LET a == s.voices[voice_nr].adsr
        due == s.sample_counter >= a.next_counter
        decstep(env) == -(Shr(env - 1, 8) + 1)
        attack ==
            LET e1 == IF due THEN a.env + (IF a.ar = 15 THEN 1024 ELSE 32) ELSE a.env
                n1 == IF due THEN s.sample_counter + ATTACK_RATE[a.ar + 1] ELSE a.next_counter
            IN  IF e1 >= SPC_DSP_ENV_MAX
                THEN [a EXCEPT !.env = SPC_DSP_ENV_MAX, !.cur_phase = SPC_VOICE_DECAY,
                               !.next_counter = s.sample_counter + 1]
                ELSE [a EXCEPT !.env = e1, !.next_counter = n1]
        decay ==
            LET e1 == IF due THEN a.env + decstep(a.env) ELSE a.env
                n1 == IF due THEN s.sample_counter + DECAY_RATE[a.dr + 1][a.sl + 1]
                             ELSE a.next_counter
            IN  IF e1 <= SUSTAIN_LEVEL[a.sl + 1]
                THEN [a EXCEPT !.env = SUSTAIN_LEVEL[a.sl + 1], !.cur_phase = SPC_VOICE_SUSTAIN,
                               !.next_counter = s.sample_counter + 1]
                ELSE [a EXCEPT !.env = e1, !.next_counter = n1]
        sustain ==
            LET e1 == IF due /\ a.sr > 0 THEN a.env + decstep(a.env) ELSE a.env
                n1 == IF due THEN s.sample_counter + SUSTAIN_RATE[a.sr + 1][a.sl + 1]
                             ELSE a.next_counter
            IN  [a EXCEPT !.env = IF e1 <= 0 THEN 0 ELSE e1, !.next_counter = n1]
        release ==
            IF a.env > 0
            THEN [a EXCEPT !.env = IF a.env - 8 <= 0 THEN 0 ELSE a.env - 8]
            ELSE a
        a2 == CASE a.cur_phase = SPC_VOICE_ATTACK -> attack
                [] a.cur_phase = SPC_VOICE_DECAY -> decay
                [] a.cur_phase = SPC_VOICE_SUSTAIN -> sustain
                [] a.cur_phase = SPC_VOICE_RELEASE -> release
        disable == a.cur_phase = SPC_VOICE_RELEASE /\ a.env > 0 /\ a.env - 8 <= 0
        s1 == [s EXCEPT !.voices[voice_nr].adsr = a2,
                        !.voices[voice_nr].enabled = IF disable THEN 0 ELSE @]
        envx == (a2.env \div 16) % 16
    IN  [val |-> ToS16(Shr(sample * a2.env, 11)),
         s   |-> set_dsp_voice(s1, voice_nr, SPC_DSP_VxENVX, envx)]

\* apply_gain(state, voice_nr, sample)
apply_gain(s, voice_nr, sample) ==
    LET a == s.voices[voice_nr].adsr
        gain_value == a.gain % 32
        step == CASE a.gain_mode <= 3 -> 0
                  [] a.gain_mode = 4 -> -32
                  [] a.gain_mode = 5 -> -(Shr(a.env - 1, 8) + 1)
                  [] a.gain_mode = 6 -> 32
                  [] a.gain_mode = 7 -> IF a.env > 1536 THEN 8 ELSE 32
        rate == CASE a.gain_mode <= 3 -> 0
                  [] a.gain_mode = 4 -> GAIN_LINEAR[gain_value + 1]
                  [] a.gain_mode = 5 -> SUSTAIN_RATE[gain_value + 1][7 + 1]
                  [] a.gain_mode = 6 -> GAIN_LINEAR[gain_value + 1]
                  [] a.gain_mode = 7 -> GAIN_BENT[gain_value + 1]
        due == s.sample_counter >= a.next_counter
        e1 == IF rate > 0 THEN a.env + step
              ELSE IF a.gain_mode <= 3 THEN Shl(a.gain, 4)
              ELSE a.env
        e2 == IF e1 < 0 THEN 0 ELSE IF e1 > 2047 THEN 2047 ELSE e1
        a2 == IF due
              THEN [a EXCEPT !.next_counter = s.sample_counter + rate,
                             !.env = IF a.env > 0 /\ a.env < 2048 THEN e2 ELSE a.env]
              ELSE a
        s1 == [s EXCEPT !.voices[voice_nr].adsr = a2]
        envx == (a2.env \div 16) % 16
    IN  [val |-> ToS16(Shr(sample * a2.env, 11)),
         s   |-> set_dsp_voice(s1, voice_nr, SPC_DSP_VxENVX, envx)]

-----------------------------------------------------------------------------
(* Voices *)

\* The Gaussian interpolation of get_next_sample, clamped to 15 bits
Interpolate(index, prev_interp, sample) ==
    LET t1 == ToS15(Shr(INTERP_TABLE[(255 - index) + 1] * prev_interp[1], 11))
        t2 == ToS15(t1 + Shr(INTERP_TABLE[(511 - index) + 1] * prev_interp[2], 11))
        t3 == ToS15(t2 + Shr(INTERP_TABLE[(256 + index) + 1] * prev_interp[3], 11))
        out == t3 + Shr(INTERP_TABLE[(0 + index) + 1] * sample, 11)
    IN  IF out > 16383 THEN 16383 ELSE IF out < -16384 THEN -16384 ELSE out

\* get_next_sample(state, voice_nr)
get_next_sample(s, voice_nr) ==
    LET \* the end of the function, once the envelope e = [val, s] is applied
        Output(e) ==
            [val |-> e.val,
             s   |-> set_dsp_voice(e.s, voice_nr, SPC_DSP_VxOUTX, Shr(e.val, 8) % 16)]
        \* the function from `if (! has_more)' on, in the state s1
        Play(has_more, s1) ==
            LET v == s1.voices[voice_nr]
                brr_nr == (v.counter \div 4096) % 16
                index == (v.counter \div 16) % 256
                sample == v.block.samples[brr_nr + 1]
                out == Interpolate(index, v.prev_interp, sample)
                s2 == [s1 EXCEPT !.voices[voice_nr].prev_interp =
                                        <<v.prev_interp[2], v.prev_interp[3], sample>>,
                                 !.voices[voice_nr].counter = @ + get_voice_pitch(s1, voice_nr)]
                s3 == decode_adsr(s2, voice_nr)
            IN  IF has_more = 0
                THEN [val |-> 0,
                      s   |-> [s1 EXCEPT !.voices[voice_nr].enabled = 0,
                                         !.voices[voice_nr].adsr.cur_phase = SPC_VOICE_RELEASE,
                                         !.voices[voice_nr].adsr.env = 0]]
                ELSE Output(IF s3.voices[voice_nr].adsr.use_adsr = 1
                            THEN apply_adsr(s3, voice_nr, out)
                            ELSE apply_gain(s3, voice_nr, out))
        \* the next block is decoded: d = [val, s]
        Advance(d) == Play(d.val, [d.s EXCEPT !.voices[voice_nr].counter = @ % 65536])
    IN  IF s.voices[voice_nr].counter > 65536
        THEN Advance(decode_next_brr_block(s, voice_nr))
        ELSE Play(1, s)

\* A kon_voice that keeps the block of a voice that already has one
kon_voice_keep(s, voice_nr) ==
    LET a == get_sample_addr(s, voice_nr, 0)
        s1 == [a.s EXCEPT !.voices[voice_nr].enabled = 1,
                          !.voices[voice_nr].cur_addr = a.val,
                          !.voices[voice_nr].looping = 0,
                          !.voices[voice_nr].counter = 0,
                          !.voices[voice_nr].adsr.env = 0,
                          !.voices[voice_nr].adsr.cur_phase = SPC_VOICE_ATTACK,
                          !.voices[voice_nr].adsr.next_counter = s.sample_counter + 1]
        s2 == decode_adsr(s1, voice_nr)
    IN  IF s2.voices[voice_nr].block # NoBlock THEN s2
        ELSE decode_brr_block(s2, voice_nr, a.val)

\* kon_voice(state, voice_nr)
kon_voice(s, voice_nr) ==
    LET a == get_sample_addr(s, voice_nr, 0)
        s1 == [a.s EXCEPT !.voices[voice_nr].enabled = 1,
                          !.voices[voice_nr].cur_addr = a.val,
                          !.voices[voice_nr].looping = 0,
                          !.voices[voice_nr].counter = 0,
                          !.voices[voice_nr].adsr.env = 0,
                          !.voices[voice_nr].adsr.cur_phase = SPC_VOICE_ATTACK,
                          !.voices[voice_nr].adsr.next_counter = s.sample_counter + 1]
        s2 == decode_adsr(s1, voice_nr)
        s3 == [s2 EXCEPT !.voices[voice_nr].block = NoBlock]
    IN  decode_brr_block(s3, voice_nr, a.val)

\* koff_voice(state, voice_nr)
koff_voice(s, voice_nr) ==
    [s EXCEPT !.voices[voice_nr].adsr.cur_phase = SPC_VOICE_RELEASE,
              !.voices[voice_nr].adsr.next_counter = s.sample_counter + 1]

\* The fields of spc_voice_t that init_voice does not set and that are not
\* read before kon_voice sets them
UnsetAdsr ==
    [ar |-> 0, dr |-> 0, sr |-> 0, sl |-> 0, rr |-> 0, use_adsr |-> 0, env |-> 0,
     cur_phase |-> SPC_VOICE_ATTACK, next_counter |-> 0, gain |-> 0, gain_mode |-> 0]

\* init_voice(state, voice_nr)
init_voice(s, voice_nr) ==
    LET enabled == BitSet(s.dsp_registers[SPC_DSP_KON], voice_nr)
        s1 == [s EXCEPT !.voices[voice_nr] =
                    [enabled |-> 0, cur_addr |-> 0, looping |-> 0, block |-> NoBlock,
                     counter |-> 0, prev_interp |-> <<0, 0, 0>>, prev_brr |-> <<0, 0>>,
                     adsr |-> [UnsetAdsr EXCEPT
                                 !.env = Shl(get_dsp_voice(s, voice_nr, SPC_DSP_VxENVX), 4)]]]
    IN  IF enabled THEN kon_voice(s1, voice_nr) ELSE s1

\* The voice loop of get_next_mixed_sample, from voice voice_nr on
RECURSIVE MixVoices(_, _, _, _)
MixVoices(s, voice_nr, lret, rret) ==
    IF voice_nr = SPC_NB_VOICES THEN [lret |-> lret, rret |-> rret, s |-> s]
    ELSE IF s.voices[voice_nr].enabled # 0
    THEN LET \* the voice's sample g = [val, s] is added to both channels
             Add(g) ==
                LET voll == get_dsp_voice(g.s, voice_nr, SPC_DSP_VxVOLL)
                    volr == get_dsp_voice(g.s, voice_nr, SPC_DSP_VxVOLR)
                IN  MixVoices(g.s, voice_nr + 1,
                              lret + Shr(g.val * voll, 7), rret + Shr(g.val * volr, 7))
         IN  Add(get_next_sample(s, voice_nr))
    ELSE MixVoices(s, voice_nr + 1, lret, rret)

\* get_next_mixed_sample(state, &left, &right)
get_next_mixed_sample(s) ==
    LET \* the function after its voice loop, which left m = [lret, rret, s]
        Master(m) ==
            LET l1 == Shr(m.lret * get_dsp(m.s, SPC_DSP_MVOLL), 7)
                l2 == IF l1 > 32767 THEN 32767 ELSE IF l1 < -32768 THEN -32768 ELSE l1
                r1 == Shr(m.rret * get_dsp(m.s, SPC_DSP_MVOLR), 7)
                r2 == IF r1 > 32767 THEN 32767 ELSE IF l2 < -32768 THEN -32768 ELSE r1
                mute == (get_dsp(m.s, SPC_DSP_FLG) \div SPC_FLG_MUTE) % 2 = 1
                l3 == IF mute THEN 0 ELSE l2
                r3 == IF mute THEN 0 ELSE r2
            IN  [left |-> ToS16(l3 * STATIC_GAIN), right |-> ToS16(r3 * STATIC_GAIN), s |-> m.s,
                 lsum |-> m.lret, rsum |-> m.rret]
    IN  Master(MixVoices(s, 0, 0, 0))

-----------------------------------------------------------------------------
(* Memory fabric: writes *)

\* The loops of dsp_register_write over the voices x..7 whose bit is set in val
RECURSIVE KonVoices(_, _, _)
KonVoices(s, val, x) ==
    IF x = SPC_NB_VOICES THEN s
    ELSE KonVoices(IF BitSet(val, x) THEN kon_voice(s, x) ELSE s, val, x + 1)

RECURSIVE KoffVoices(_, _, _)
KoffVoices(s, val, x) ==
    IF x = SPC_NB_VOICES THEN s
    ELSE KoffVoices(IF BitSet(val, x) THEN koff_voice(s, x) ELSE s, val, x + 1)

\* A dsp_register_write whose FLG reset keys off the voices whose bits are set
\* in val
dsp_register_write_bits(s, reg, val) ==
    LET s1 == [s EXCEPT !.dsp_registers[reg] = val]
    IN  CASE reg = SPC_DSP_KON -> KonVoices(s1, val, 0)
          [] reg = SPC_DSP_KOFF -> KoffVoices(s1, val, 0)
          [] reg = SPC_DSP_FLG ->
                IF (val \div SPC_FLG_RESET) % 2 = 1 THEN KoffVoices(s1, val, 0) ELSE s1
          [] reg = SPC_DSP_ENDX -> [s1 EXCEPT !.dsp_registers[SPC_DSP_ENDX] = 0]
          [] OTHER -> s1

\* A dsp_register_write that keeps the value written to ENDX
dsp_register_write_keep(s, reg, val) ==
    LET s1 == [s EXCEPT !.dsp_registers[reg] = val]
    IN  CASE reg = SPC_DSP_KON -> KonVoices(s1, val, 0)
          [] reg = SPC_DSP_KOFF -> KoffVoices(s1, val, 0)
          [] reg = SPC_DSP_FLG ->
                IF (val \div SPC_FLG_RESET) % 2 = 1 THEN KoffVoices(s1, 255, 0) ELSE s1
          [] OTHER -> s1

\* dsp_register_write(state, reg, val)
dsp_register_write(s, reg, val) ==
    LET s1 == [s EXCEPT !.dsp_registers[reg] = val]
    IN  CASE reg = SPC_DSP_KON -> KonVoices(s1, val, 0)
          [] reg = SPC_DSP_KOFF -> KoffVoices(s1, val, 0)
          [] reg = SPC_DSP_FLG ->
                IF (val \div SPC_FLG_RESET) % 2 = 1 THEN KoffVoices(s1, 255, 0) ELSE s1
          [] reg = SPC_DSP_ENDX -> [s1 EXCEPT !.dsp_registers[SPC_DSP_ENDX] = 0]
          [] OTHER -> s1

\* The timer loop of register_write for 0xF1, from timer `timer' on
RECURSIVE ControlTimers(_, _, _)
ControlTimers(s, val, timer) ==
    IF timer = 3 THEN s
    ELSE ControlTimers(IF BitSet(val, timer) THEN enable_timer(s, timer)
                                            ELSE clear_timer(s, timer),
                       val, timer + 1)

\* A register_write that keeps in RAM, for 0xF2, the register index it selected
register_write_index(s, addr, val) ==
    CASE addr = \hF1 -> ControlTimers(RamStore(s, addr, val), val, 0)
      [] addr = \hF2 ->
            LET reg == IF val > 127 THEN val % 127 ELSE val
            IN  RamStore([s EXCEPT !.current_dsp_register = reg], addr, reg)
      [] addr = \hF3 -> RamStore(dsp_register_write(s, s.current_dsp_register, val), addr, val)
      [] addr \in SPC_REG_COUNTER0 .. SPC_REG_COUNTER2 -> s
      [] OTHER -> RamStore(s, addr, val)

\* register_write(state, addr, val), for addr in 0xF0..0xFF
register_write(s, addr, val) ==
    CASE addr = \hF1 -> ControlTimers(RamStore(s, addr, val), val, 0)
      [] addr = \hF2 ->
            RamStore([s EXCEPT !.current_dsp_register = IF val > 127 THEN val % 127 ELSE val],
                     addr, val)
      [] addr = \hF3 -> RamStore(dsp_register_write(s, s.current_dsp_register, val), addr, val)
      [] addr \in SPC_REG_COUNTER0 .. SPC_REG_COUNTER2 -> s
      [] OTHER -> RamStore(s, addr, val)

\* write_byte(state, addr, val)
write_byte(s, addr, val) ==
    IF (addr \div 16) * 16 = \h00F0
    THEN register_write(s, addr, val)
    ELSE RamStore(s, addr, val)

\* write_word(state, addr, val)
write_word(s, addr, val) ==
    write_byte(write_byte(s, addr, get_low(val)), ToU16(addr + 1), get_high(val))

-----------------------------------------------------------------------------
(* The CPU: the stack and subroutine helpers, do_adc, and the instructions *)
(* NOP, PUSH A, POP A, CALL, RET and ADC A,#imm of execute_instruction    *)

SPC_STACK_BASE == \h0100

\* a value converted to Sint8
ToS8(x) == ((x + 128) % 256) - 128

\* do_pop with a stack pointer wider than a byte
do_pop_nowrap(s) ==
    LET Read(sp) == [val |-> Ram(s, SPC_STACK_BASE + sp),
                     s |-> [s EXCEPT !.regs.sp = sp]]
    IN  Read(s.regs.sp + 1)

\* do_pop(state): the byte read and the state left
do_pop(s) ==
    LET Read(sp) == [val |-> Ram(s, ToU16(SPC_STACK_BASE + sp)),
                     s |-> [s EXCEPT !.regs.sp = sp]]
    IN  Read(ToU8(s.regs.sp + 1))

\* do_push(state, val)
do_push(s, val) ==
    [RamStore(s, ToU16(SPC_STACK_BASE + s.regs.sp), val) EXCEPT !.regs.sp = ToU8(@ - 1)]

\* do_ret(state): the low byte is popped first
do_ret(s) ==
    LET High(l) ==
            LET Jump(h) == [h.s EXCEPT !.regs.pc = make16(h.val, l.val)]
            IN  Jump(do_pop(l.s))
    IN  High(do_pop(s))

\* do_call(state, operand1, operand2): the high byte is pushed first
do_call(s, operand1, operand2) ==
    LET Push(ret_addr) ==
            [do_push(do_push(s, get_high(ret_addr)), get_low(ret_addr))
                EXCEPT !.regs.pc = make16(operand2, operand1)]
    IN  Push(ToU16(s.regs.pc + 3))

\* do_adc whose carry out leaves the carry in out of the sum
do_adc_nocarry(s, dst, operand) ==
    LET Flags(sResult, result) ==
            [val |-> result % 256,
             s |-> [s EXCEPT !.regs.psw.c = IF dst + operand > \hFF THEN 1 ELSE 0,
                             !.regs.psw.v = IF sResult < -128 \/ sResult > 127 THEN 1 ELSE 0,
                             !.regs.psw.z = IF result % 256 = 0 THEN 1 ELSE 0,
                             !.regs.psw.n = IF BitSet(result % 256, 7) THEN 1 ELSE 0]]
    IN  Flags(ToS16(ToS8(dst) + ToS8(operand) + s.regs.psw.c),
              ToU16(dst + operand + s.regs.psw.c))

\* do_adc(state, dst, operand): the byte returned and the state left
do_adc(s, dst, operand) ==
    LET Flags(sResult, result) ==
            [val |-> result % 256,
             s |-> [s EXCEPT !.regs.psw.c = IF result > \hFF THEN 1 ELSE 0,
                             !.regs.psw.v = IF sResult < -128 \/ sResult > 127 THEN 1 ELSE 0,
                             !.regs.psw.z = IF result % 256 = 0 THEN 1 ELSE 0,
                             !.regs.psw.n = IF BitSet(result % 256, 7) THEN 1 ELSE 0]]
    IN  Flags(ToS16(ToS8(dst) + ToS8(operand) + s.regs.psw.c),
              ToU16(dst + operand + s.regs.psw.c))

\* adjust_flags(state, val)
adjust_flags(s, val) ==
    [s EXCEPT !.regs.psw.n = IF BitSet(val, 7) THEN 1 ELSE 0,
              !.regs.psw.z = IF val = 0 THEN 1 ELSE 0]

\* The do_cmp of the older variant of the player (spcplayer.c), which also
\* sets V
do_cmp_v(s, operand1, operand2) ==
    LET Flags(result, sResult) ==
            adjust_flags([s EXCEPT !.regs.psw.c = IF result > \hFF THEN 0 ELSE 1,
                                   !.regs.psw.v = IF sResult < -128 \/ sResult > 127 THEN 1 ELSE 0],
                         result % 256)
    IN  Flags(ToU16(operand1 - operand2), ToS16(ToS8(operand1) - ToS8(operand2)))

\* do_cmp(state, operand1, operand2)
do_cmp(s, operand1, operand2) ==
    LET Flags(result) ==
            adjust_flags([s EXCEPT !.regs.psw.c = IF operand1 >= operand2 THEN 1 ELSE 0],
                         result % 256)
    IN  Flags(ToU16(operand1 - operand2))

\* do_sbc(state, dst, operand): the byte returned and the state left
do_sbc(s, dst, operand) ==
    LET Flags(result, sResult) ==
            [val |-> result % 256,
             s |-> [s EXCEPT !.regs.psw.c = IF dst >= operand THEN 1 ELSE 0,
                             !.regs.psw.n = IF BitSet(result % 256, 7) THEN 1 ELSE 0,
                             !.regs.psw.v = IF sResult < -128 \/ sResult > 127 THEN 1 ELSE 0,
                             !.regs.psw.h = IF sResult < -128 \/ sResult > 127 THEN 1 ELSE 0,
                             !.regs.psw.z = IF result % 256 = 0 THEN 1 ELSE 0]]
    IN  Flags(ToU16(dst - operand - (1 - s.regs.psw.c)),
              ToS16(ToS8(dst) - ToS8(operand) - (1 - s.regs.psw.c)))

\* What do_sub_ya and do_add_ya leave of the `int' sResult and the 16-bit
\* ret, with the carry c
WordResult(s, c, sResult, ret) ==
    [s EXCEPT !.regs.psw.c = c,
              !.regs.psw.n = IF BitSet(ret, 7) THEN 1 ELSE 0,
              !.regs.psw.v = IF sResult < -32768 \/ sResult > 32767 THEN 1 ELSE 0,
              !.regs.psw.z = IF ret = 0 THEN 1 ELSE 0,
              !.regs.y = get_high(ret),
              !.regs.a = get_low(ret)]

\* do_sub_ya(state, val)
do_sub_ya(s, val) ==
    LET Sub(ya) == WordResult(s, IF ya >= val THEN 1 ELSE 0, ya - val, ToU16(ya - val))
    IN  Sub(make16(s.regs.y, s.regs.a))

\* do_add_ya(state, val)
do_add_ya(s, val) ==
    LET Add(ya) == WordResult(s, IF ya + val > \hFFFF THEN 1 ELSE 0, ya + val, ToU16(ya + val))
    IN  Add(make16(s.regs.y, s.regs.a))

\* get_direct_page_addr(state, addr)
get_direct_page_addr(s, addr) ==
    ToU16(addr + (IF s.regs.psw.p = 1 THEN \h0100 ELSE \h0000))

\* get_direct_page_byte(state, addr)
get_direct_page_byte(s, addr) == read_byte(s, get_direct_page_addr(s, addr))

\* The opcodes of execute_instruction that the model runs: NOP, PUSH A, CALL,
\* RET, ADC A,#imm, POP A, SBC A,#imm, ADDW, SUBW, the forms of CMP,
\* ADC A,$dp+X, CLRP, SETP, CLRC, SETC, NOTC, MOV X,$aaaa, MOV Y,$aaaa and
\* DIV YA,X
Opcodes ==
    {\h00, \h2D, \h3F, \h6F, \h88, \hAE, \hA8, \h7A, \h9A,
     \h1E, \h3E, \h64, \h65, \h68, \h69, \h74, \h75, \h76, \h78, \h7E, \hAD, \hC8,
     \h94, \h20, \h40, \h60, \h80, \hED, \hE9, \hEC, \h9E}

\* The opcodes that have no case in execute_instruction: its default case
\* reports them and calls exit(1)
Unimplemented ==
    {\h01, \h06, \h07, \h0A, \h0F, \h11, \h15, \h16, \h17, \h18, \h19, \h1A,
     \h21, \h26, \h27, \h29, \h2A, \h2C, \h2E, \h31, \h34, \h35, \h36, \h37,
     \h39, \h3B, \h3C, \h41, \h45, \h46, \h47, \h4A, \h4F, \h51, \h55, \h56,
     \h57, \h58, \h59, \h5A, \h5B, \h5E, \h61, \h66, \h67, \h6A, \h6C, \h71,
     \h77, \h79, \h7B, \h7F, \h81, \h86, \h87, \h8A, \h91, \h99, \h9D, \hA0,
     \hA1, \hA6, \hA7, \hA9, \hAA, \hAF, \hB1, \hB4, \hB7, \hB8, \hB9, \hBD,
     \hBE, \hBF, \hC0, \hC1, \hC6, \hC7, \hCA, \hD1, \hD9, \hDF, \hE0, \hE1,
     \hEA, \hEF, \hF1, \hF9, \hFF}

\* opcode_ptr->len of the opcodes of Opcodes (OPCODE_TABLE)
OpcodeLen(opcode) ==
    IF opcode \in {\h3F, \h1E, \h65, \h69, \h75, \h76, \h78, \hE9, \hEC} THEN 3
    ELSE IF opcode \in {\h00, \h2D, \h6F, \hAE, \h20, \h40, \h60, \h80, \hED, \h9E} THEN 1
    ELSE 2

\* execute_instruction(state, addr), for the opcodes of Opcodes
execute_instruction(s, addr) ==
    LET opcode == Ram(s, addr)
        operand1 == Ram(s, addr + 1)
        operand2 == Ram(s, addr + 2)
        abs_addr == make16(operand2, operand1)
        \* the case of the opcode has left s1
        Epilogue(s1, cycles, pc_adjusted) ==
            [s1 EXCEPT !.regs.pc = IF pc_adjusted THEN @ ELSE ToU16(@ + OpcodeLen(opcode)),
                       !.cycle = @ + cycles]
        \* state->regs->a = r.val, r the result of do_pop, do_adc or do_sbc
        LoadA(r) == [r.s EXCEPT !.regs.a = r.val]
        \* do_cmp of a register with the byte r.val that was read
        CmpA(r) == do_cmp(r.s, r.s.regs.a, r.val)
        CmpX(r) == do_cmp(r.s, r.s.regs.x, r.val)
        CmpY(r) == do_cmp(r.s, r.s.regs.y, r.val)
        \* do_cmp of the byte that was read with the immediate operand
        CmpImm(r) == do_cmp(r.s, r.val, operand1)
        \* CMP $xx, $yy: val1 was read at operand1, val2 is read at operand2
        CmpDp(val1) ==
            LET Second(val2) == do_cmp(val2.s, val2.val, val1.val)
            IN  Second(get_direct_page_byte(val1.s, operand2))
        \* the word operand of ADDW and SUBW: l was read at operand1
        WordAt(l) ==
            LET High(h) == [val |-> make16(h.val, l.val), s |-> h.s]
            IN  High(get_direct_page_byte(l.s, operand1 + 1))
        AddYa(operand) == do_add_ya(operand.s, operand.val)
        \* state->regs->x = r.val and state->regs->y = r.val, then adjust_flags
        LoadX(r) == adjust_flags([r.s EXCEPT !.regs.x = r.val], r.val)
        LoadY(r) == adjust_flags([r.s EXCEPT !.regs.y = r.val], r.val)
        \* NOTC
        NotC(s1) == [s1 EXCEPT !.regs.psw.c = 1 - @]
        \* DIV YA,X: the quotient, cut to a byte, in A and the remainder in Y.
        \* With X = 0 the division is undefined; where it does not trap the
        \* quotient is 0 and the remainder is the dividend
        DivYa(ya, x) ==
            LET Store(q, r) == adjust_flags([s EXCEPT !.regs.a = ToU8(q), !.regs.y = ToU8(r)], ToU8(q))
            IN  IF x = 0 THEN Store(0, ya) ELSE Store(ya \div x, ya % x)
        \* do_adc of A with the byte r.val that was read
        AdcA(r) == do_adc(r.s, r.s.regs.a, r.val)
        SubYa(operand) == do_sub_ya(operand.s, operand.val)
    IN  CASE opcode = \h00 -> Epilogue(s, 1, FALSE)
          [] opcode = \h20 -> Epilogue([s EXCEPT !.regs.psw.p = 0], 2, FALSE)
          [] opcode = \h40 -> Epilogue([s EXCEPT !.regs.psw.p = 1], 2, FALSE)
          [] opcode = \h60 -> Epilogue([s EXCEPT !.regs.psw.c = 0], 2, FALSE)
          [] opcode = \h80 -> Epilogue([s EXCEPT !.regs.psw.c = 1], 2, FALSE)
          [] opcode = \hED -> Epilogue(NotC(s), 3, FALSE)
          [] opcode = \hE9 -> Epilogue(LoadX(read_byte(s, abs_addr)), 4, FALSE)
          \* the case of 0xEC has no break: it runs on into that of 0xED
          [] opcode = \hEC -> Epilogue(NotC(LoadY(read_byte(s, abs_addr))), 3, FALSE)
          [] opcode = \h9E -> Epilogue(DivYa(make16(s.regs.y, s.regs.a), s.regs.x), 12, FALSE)
          [] opcode = \h1E -> Epilogue(CmpX(read_byte(s, abs_addr)), 4, FALSE)
          [] opcode = \h2D -> Epilogue(do_push(s, s.regs.a), 4, FALSE)
          [] opcode = \h3E -> Epilogue(CmpX(get_direct_page_byte(s, operand1)), 6, FALSE)
          [] opcode = \h3F -> Epilogue(do_call(s, operand1, operand2), 8, TRUE)
          [] opcode = \h64 -> Epilogue(CmpA(get_direct_page_byte(s, operand1)), 3, FALSE)
          [] opcode = \h65 -> Epilogue(CmpA(read_byte(s, abs_addr)), 4, FALSE)
          [] opcode = \h68 -> Epilogue(do_cmp(s, s.regs.a, operand1), 2, FALSE)
          [] opcode = \h69 -> Epilogue(CmpDp(get_direct_page_byte(s, operand1)), 6, FALSE)
          [] opcode = \h6F -> Epilogue(do_ret(s), 5, TRUE)
          [] opcode = \h74 ->
                Epilogue(CmpA(read_byte(s, ToU16(get_direct_page_addr(s, operand1) + s.regs.x))),
                         4, FALSE)
          [] opcode = \h75 -> Epilogue(CmpA(read_byte(s, ToU16(abs_addr + s.regs.x))), 5, FALSE)
          [] opcode = \h76 -> Epilogue(CmpA(read_byte(s, ToU16(abs_addr + s.regs.y))), 5, FALSE)
          [] opcode = \h78 -> Epilogue(CmpImm(get_direct_page_byte(s, operand2)), 5, FALSE)
          [] opcode = \h7A -> Epilogue(AddYa(WordAt(get_direct_page_byte(s, operand1))), 5, FALSE)
          [] opcode = \h7E -> Epilogue(CmpY(get_direct_page_byte(s, operand1)), 3, FALSE)
          [] opcode = \h88 -> Epilogue(LoadA(do_adc(s, s.regs.a, operand1)), 2, FALSE)
          [] opcode = \h94 ->
                Epilogue(LoadA(AdcA(read_byte(s, ToU16(get_direct_page_addr(s, operand1) + s.regs.x)))),
                         4, FALSE)
          [] opcode = \h9A -> Epilogue(SubYa(WordAt(get_direct_page_byte(s, operand1))), 5, FALSE)
          [] opcode = \hA8 -> Epilogue(LoadA(do_sbc(s, s.regs.a, operand1)), 2, FALSE)
          [] opcode = \hAD -> Epilogue(do_cmp(s, s.regs.y, operand1), 2, FALSE)
          [] opcode = \hAE -> Epilogue(LoadA(do_pop(s)), 4, FALSE)
          [] opcode = \hC8 -> Epilogue(do_cmp(s, s.regs.x, operand1), 2, FALSE)

-----------------------------------------------------------------------------

(* buf.c: the circular buffer of Sint16 samples *)

\* buffer_create(size): data is malloc(size), `size' bytes, and nothing is
\* stored yet
buffer_create(size) == [size |-> size, len |-> 0, head |-> 0, tail |-> 0, data |-> <<>>]

\* buffer_is_full(buf)
buffer_is_full(buf) == (buf.size - buf.len) = 0

\* buffer_get_free(buf)
buffer_get_free(buf) == buf.size - buf.len

\* buffer_get_len(buf)
buffer_get_len(buf) == buf.len

\* data[i], a Sint16, lies within the `size' bytes that buffer_create allocated
InAllocation(buf, i) == 2 * i + 2 <= buf.size

\* A buffer_add_one that stores the sample whether the buffer is full or not
buffer_add_one_over(buf, sample) ==
    [ret |-> 1,
     buf |-> [buf EXCEPT !.data = [i \in (DOMAIN buf.data) \cup {buf.tail} |->
                                       IF i = buf.tail THEN sample ELSE buf.data[i]],
                         !.tail = (buf.tail + 1) % buf.size,
                         !.len = buf.len + 1]]

\* buffer_add_one(buf, sample): ret and the buffer it leaves
buffer_add_one(buf, sample) ==
    IF ~buffer_is_full(buf)
    THEN [ret |-> 1,
          buf |-> [buf EXCEPT !.data = [i \in (DOMAIN buf.data) \cup {buf.tail} |->
                                            IF i = buf.tail THEN sample ELSE buf.data[i]],
                              !.tail = (buf.tail + 1) % buf.size,
                              !.len = buf.len + 1]]
    ELSE [ret |-> 0, buf |-> buf]

\* The values buffer_get_one can read from data[head]: the sample stored
\* there, or, for an element outside the allocation, whatever the memory
\* beyond the allocation holds by then (any of the values `any')
HeadValues(buf, any) ==
    IF InAllocation(buf, buf.head) THEN {buf.data[buf.head]} ELSE {buf.data[buf.head]} \cup any

\* A buffer_get_one that advances head without wrapping it
buffer_get_one_nowrap(buf, val) ==
    [val |-> val,
     buf |-> [buf EXCEPT !.head = buf.head + 1,
                         !.len = buf.len - 1]]

\* buffer_get_one(buf), reading val from data[head]: the buffer it leaves
buffer_get_one(buf, val) ==
    [val |-> val,
     buf |-> [buf EXCEPT !.head = (buf.head + 1) % buf.size,
                         !.len = buf.len - 1]]

-----------------------------------------------------------------------------
(* main(): initialisation from a snapshot, and the scheduler loop *)

\* The timer loop of main()'s initialisation, from timer `timer' on: the
\* timer is enabled or cleared by its Control bit, and its counter is then
\* taken from the snapshot's RAM
RECURSIVE InitTimers(_, _)
InitTimers(s, timer) ==
    IF timer = 3 THEN s
    ELSE LET s1 == IF BitSet(Ram(s, SPC_REG_CONTROL), timer)
                   THEN enable_timer(s, timer)
                   ELSE clear_timer(s, timer)
         IN  InitTimers([s1 EXCEPT !.timers.counter[timer] = Ram(s, SPC_REG_COUNTER0 + timer)],
                        timer + 1)

RECURSIVE InitVoices(_, _)
InitVoices(s, x) ==
    IF x = SPC_NB_VOICES THEN s ELSE InitVoices(init_voice(s, x), x + 1)

\* main() up to its loop, for the snapshot (ram, dsp_registers, registers):
\* the value of `state' when the loop is entered
main_init(ram, dsp_registers, registers) ==
    LET s0 == [ram |-> ram,
               dsp_registers |-> dsp_registers,
               regs |-> registers,
               current_dsp_register |-> IF \hF2 \in DOMAIN ram THEN ram[\hF2] ELSE 0,
               sample_counter |-> 0,
               cycle |-> 0,
               timers |-> [next_timer |-> [t \in Timers |-> 0],
                           timer |-> [t \in Timers |-> 0],
                           counter |-> [t \in Timers |-> 0],
                           divisor |-> [t \in Timers |-> 0]],
               voices |-> [x \in Voices |-> [enabled |-> 0]]]
    IN  InitVoices(InitTimers(s0, 0), 0)

\* A sample block that advances next_audio_sample by one period from its
\* own value
SampleBlock_advance(s, next) ==
    IF s.cycle >= next
    THEN LET \* the pair m = [left, right, s] is handed to the sink
             Produce(m) ==
                [mixed |-> TRUE,
                 next |-> next + AUDIO_SAMPLE_PERIOD,
                 left |-> m.left,
                 right |-> m.right,
                 lsum |-> m.lsum,
                 rsum |-> m.rsum,
                 s |-> [m.s EXCEPT !.sample_counter = @ + 1]]
         IN  Produce(get_next_mixed_sample(s))
    ELSE [mixed |-> FALSE, next |-> next, left |-> 0, right |-> 0, lsum |-> 0, rsum |-> 0, s |-> s]

\* The sample block that ends each iteration of main()'s loop
SampleBlock(s, next) ==
    IF s.cycle >= next
    THEN LET \* the pair m = [left, right, s] is handed to the sink
             Produce(m) ==
                [mixed |-> TRUE,
                 next |-> s.cycle + AUDIO_SAMPLE_PERIOD,
                 left |-> m.left,
                 right |-> m.right,
                 lsum |-> m.lsum,
                 rsum |-> m.rsum,
                 s |-> [m.s EXCEPT !.sample_counter = @ + 1]]
         IN  Produce(get_next_mixed_sample(s))
    ELSE [mixed |-> FALSE, next |-> next, left |-> 0, right |-> 0, lsum |-> 0, rsum |-> 0, s |-> s]

\* timer's tick is due in update_counters
TimerDue(s, timer) ==
    BitSet(Ram(s, SPC_REG_CONTROL), timer) /\ s.cycle >= s.timers.next_timer[timer]

\* No mixer call yet
NoMix == [last |-> -1, gap |-> -1]

\* mix_cycles once the mixer is called with the cycle counter at c
MixedAt(c) ==
    [last |-> c, gap |-> IF mix_cycles.last = -1 THEN -1 ELSE c - mix_cycles.last]

\* No pair handed to the sink yet
NoOut == [left |-> 0, right |-> 0, lsum |-> 0, rsum |-> 0]

\* mix_out once the sample block leaves b
PairOf(b) == [left |-> b.left, right |-> b.right, lsum |-> b.lsum, rsum |-> b.rsum]

\* No key-off recorded for a voice
NoKoff == [env |-> -1, at |-> -1]

\* No tick count kept
NoTicks == [t \in Timers |-> -1]

\* An iteration of main()'s loop once its instruction has run and left the
\* state s1 (cycle counter advanced): update_counters, then the sample block.
\* reset_ticks: the instruction wrote Control.  kon, koff: the voices the
\* instruction keyed on and keyed off.
EndIteration(s1, reset_ticks, kon, koff) ==
    LET \* the sample block has run and left b; the cycle counter is that of s1
        Sampled(b) ==
            /\ state' = b.s
            /\ next_audio_sample' = b.next
            /\ mix_cycles' = IF b.mixed THEN MixedAt(s1.cycle) ELSE mix_cycles
            /\ mix_out' = IF b.mixed THEN PairOf(b) ELSE mix_out
    IN  /\ Sampled(SampleBlock(update_counters(s1), next_audio_sample))
        /\ ticks' = IF ticks = NoTicks THEN ticks
                    ELSE [t \in Timers |->
                            (IF reset_ticks THEN 0 ELSE ticks[t])
                                + (IF TimerDue(s1, t) THEN 1 ELSE 0)]
        /\ koff_at' = [x \in Voices |->
                        IF x \in kon THEN NoKoff
                        ELSE IF x \in koff /\ state.voices[x].enabled = 1 /\ koff_at[x] = NoKoff
                        THEN [env |-> state.voices[x].adsr.env, at |-> state.sample_counter]
                        ELSE koff_at[x]]

\* An iteration whose instruction touches no memory-mapped register and
\* costs n cycles
ExecNop(n) ==
    /\ EndIteration([state EXCEPT !.cycle = @ + n], FALSE, {}, {})
    /\ last_op' = [op |-> "nop", addr |-> -1, val |-> -1]
    /\ last_ret' = -1
    /\ UNCHANGED <<nops, audio_buf, fifo, sink>>

\* An iteration whose instruction writes val at addr (write_byte) and costs
\* n cycles
ExecWrite(addr, val, n) ==
    LET reg == state.current_dsp_register
        dsp == (addr = \hF3)
        kon == IF dsp /\ reg = SPC_DSP_KON THEN {x \in Voices : BitSet(val, x)} ELSE {}
        koff == IF dsp /\ reg = SPC_DSP_KOFF THEN {x \in Voices : BitSet(val, x)}
                ELSE IF dsp /\ reg = SPC_DSP_FLG /\ BitSet(val, 7) THEN Voices
                ELSE {}
    IN  /\ EndIteration([write_byte(state, addr, val) EXCEPT !.cycle = @ + n],
                        addr = SPC_REG_CONTROL, kon, koff)
        /\ last_op' = [op |-> "write", addr |-> addr, val |-> val]
        /\ last_ret' = -1
        /\ nops' = nops + 1
        /\ UNCHANGED <<audio_buf, fifo, sink>>

\* An iteration whose instruction reads addr (read_byte) and costs n cycles
ExecRead(addr, n) ==
    LET r == read_byte(state, addr)
    IN  /\ EndIteration([r.s EXCEPT !.cycle = @ + n], FALSE, {}, {})
        /\ last_op' = [op |-> "read", addr |-> addr, val |-> -1]
        /\ last_ret' = r.val
        /\ nops' = nops + 1
        /\ UNCHANGED <<audio_buf, fifo, sink>>

\* An iteration in which the debugger runs a command that executes no
\* instruction: only the sample block runs
DebugCommand ==
    LET Sampled(b) ==
            /\ state' = b.s
            /\ next_audio_sample' = b.next
            /\ mix_cycles' = IF b.mixed THEN MixedAt(state.cycle) ELSE mix_cycles
            /\ mix_out' = IF b.mixed THEN PairOf(b) ELSE mix_out
    IN  /\ Sampled(SampleBlock(state, next_audio_sample))
        /\ last_op' = [op |-> "debug", addr |-> -1, val |-> -1]
        /\ last_ret' = -1
        /\ UNCHANGED <<ticks, koff_at, nops, audio_buf, fifo, sink>>

\* write_byte(addr, val) on its own, as an instruction calls it; a write to
\* 0xF3 while the index is above 127 fails the assertion of
\* dsp_register_write, and the process is aborted
WriteByte(addr, val) ==
    /\ last_op.op # "abort"
    /\ IF addr = \hF3 /\ state.current_dsp_register >= SPC_DSP_REGISTERS
       THEN state' = state /\ last_op' = [op |-> "abort", addr |-> addr, val |-> val]
       ELSE /\ state' = write_byte(state, addr, val)
            /\ last_op' = [op |-> "write", addr |-> addr, val |-> val]
    /\ last_ret' = -1
    /\ nops' = nops + 1
    /\ UNCHANGED <<next_audio_sample, mix_cycles, mix_out, koff_at, ticks, audio_buf, fifo, sink>>

\* read_byte(addr) on its own, as an instruction calls it; a read of 0xF3
\* while the index is above 127 reads beyond the 128 bytes of dsp_registers
\* and returns whatever byte lies there
ReadByte(addr) ==
    LET beyond == (addr = \hF3 /\ state.current_dsp_register >= SPC_DSP_REGISTERS)
    IN  /\ last_op.op # "abort"
        /\ \E val \in (IF beyond THEN 0 .. 255 ELSE {read_byte(state, addr).val}) :
                last_ret' = val
        /\ state' = IF beyond THEN state ELSE read_byte(state, addr).s
        /\ last_op' = [op |-> "read", addr |-> addr, val |-> -1]
        /\ nops' = nops + 1
        /\ UNCHANGED <<next_audio_sample, mix_cycles, mix_out, koff_at, ticks, audio_buf, fifo, sink>>

-----------------------------------------------------------------------------
(* Snapshots: the RAM and DSP register images main() starts from *)

\* The memory-mapped registers 0xF0..0xFF
MMIO == \hF0 .. \hFF

\* A 9-byte BRR block at addr: its header and its 8 payload bytes
BrrBlock(addr, header, payload) ==
    [a \in addr .. (addr + 8) |-> IF a = addr THEN header ELSE payload[a - addr]]

\* A little-endian word at addr
Word(addr, w) == (addr :> get_low(w)) @@ ((addr + 1) :> get_high(w))

Payload == <<\h01, \h23, \h45, \h67, \h89, \hAB, \hCD, \hEF>>

\* A sample directory at 0x0200 and five blocks at 0x0300:
\*   source 0: 0x0300 (more follow), then 0x0309 (last, loop; filter 1), looping to 0x0309
\*   source 1: 0x0312 (last, no loop)
\*   source 2: 0x031B (more follow), then 0x0324 (last, no loop)
SongCells ==
    Word(\h0200, \h0300) @@ Word(\h0202, \h0309) @@
    Word(\h0204, \h0312) @@ Word(\h0206, \h0312) @@
    Word(\h0208, \h031B) @@ Word(\h020A, \h031B) @@
    BrrBlock(\h0300, \hC0, Payload) @@
    BrrBlock(\h0309, \hA7, Payload) @@
    BrrBlock(\h0312, \hC1, Payload) @@
    BrrBlock(\h031B, \hB8, Payload) @@
    BrrBlock(\h0324, \hC1, Payload)

\* An iteration of main()'s loop whose execute_next skips an opcode without
\* a case as if it were NOP
ExecInstruction_skip ==
    LET pc == state.regs.pc
        opcode == Ram(state, pc)
    IN  /\ last_op.op # "exit"
        /\ opcode \in Opcodes \cup Unimplemented
        /\ EndIteration(IF opcode \in Unimplemented
                        THEN [state EXCEPT !.regs.pc = ToU16(@ + 1), !.cycle = @ + 1]
                        ELSE execute_instruction(state, pc),
                        FALSE, {}, {})
        /\ last_op' = [op |-> "exec", addr |-> pc, val |-> opcode,
                       sp |-> state.regs.sp, a |-> state.regs.a]
        /\ last_ret' = IF opcode = \hAE THEN do_pop(state).val ELSE -1
        /\ UNCHANGED <<nops, audio_buf, fifo, sink>>

\* An iteration of main()'s loop: execute_next runs the instruction at PC;
\* at an opcode without a case the process exits inside execute_instruction,
\* before update_counters and the sample block, and runs no more; nor does
\* it when the division of DIV YA,X traps
ExecInstruction ==
    LET pc == state.regs.pc
        opcode == Ram(state, pc)
        \* DIV YA,X with X = 0 divides by zero: the process is killed by the
        \* trap of the division, or the division yields a value and it runs on
        outcomes == IF opcode = \h9E /\ state.regs.x = 0 THEN {"trap", "run"} ELSE {"run"}
    IN  /\ last_op.op \notin {"exit", "fault"}
        /\ opcode \in Opcodes \cup Unimplemented
        /\ \E outcome \in outcomes :
            IF opcode \in Unimplemented \/ outcome = "trap"
            THEN /\ last_op' = [op |-> IF outcome = "trap" THEN "fault" ELSE "exit",
                                addr |-> pc, val |-> opcode,
                                sp |-> state.regs.sp, a |-> state.regs.a]
                 /\ UNCHANGED <<state, next_audio_sample, mix_cycles, mix_out, koff_at, ticks>>
            ELSE /\ EndIteration(execute_instruction(state, pc), FALSE, {}, {})
                 /\ last_op' = [op |-> "exec", addr |-> pc, val |-> opcode,
                                sp |-> state.regs.sp, a |-> state.regs.a]
        /\ last_ret' = IF opcode = \hAE THEN do_pop(state).val ELSE -1
        /\ UNCHANGED <<nops, audio_buf, fifo, sink>>

\* Ordinary RAM cells next to the register window and at the ends of RAM
PlainCells == {\h0000, \h00EF, \h0100, \hFFFF}

\* The RAM image with the given cells, zero elsewhere
RamImage(cells) ==
    [a \in MMIO \cup PlainCells \cup DOMAIN SongCells \cup DOMAIN cells |->
        IF a \in DOMAIN cells THEN cells[a]
        ELSE IF a \in DOMAIN SongCells THEN SongCells[a]
        ELSE 0]

\* The CPU registers (spc_registers_t) with the flags of spc_flags_t
Registers(pc, a, sp, c) ==
    [pc |-> pc, a |-> a, x |-> 0, y |-> 0, sp |-> sp,
     psw |-> [c |-> c, z |-> 0, i |-> 0, h |-> 0, b |-> 0, p |-> 0, v |-> 0, n |-> 0]]

\* The registers of a snapshot whose program is not looked at
IdleRegisters == Registers(\h0200, 0, \hEF, 0)

\* The DSP register image with the given registers, zero elsewhere
DspImage(regs) ==
    [r \in 0 .. (SPC_DSP_REGISTERS - 1) |-> IF r \in DOMAIN regs THEN regs[r] ELSE 0]

\* The registers of a voice: both volumes 0x7F, pitch 0x3FFF
VoiceRegs(x, srcn, adsr1, adsr2, gain) ==
    ((x * 16 + SPC_DSP_VxVOLL) :> \h7F) @@ ((x * 16 + SPC_DSP_VxVOLR) :> \h7F) @@
    ((x * 16 + SPC_DSP_VxPITCHL) :> \hFF) @@ ((x * 16 + SPC_DSP_VxPITCHH) :> \h3F) @@
    ((x * 16 + SPC_DSP_VxSCRN) :> srcn) @@
    ((x * 16 + SPC_DSP_VxADSR1) :> adsr1) @@ ((x * 16 + SPC_DSP_VxADSR2) :> adsr2) @@
    ((x * 16 + SPC_DSP_VxGAIN) :> gain)

\* Voice 0 plays source 0 in ADSR mode (ar = 14), voice 1 source 1 in GAIN
\* mode (direct gain), voice 2 source 2 in ADSR mode (ar = 15, sl = 7)
SongRegs ==
    VoiceRegs(0, 0, \h8E, \hE0, \h00) @@
    VoiceRegs(1, 1, \h00, \h00, \h7F) @@
    VoiceRegs(2, 2, \h8F, \hE0, \h00) @@
    (SPC_DSP_MVOLL :> \h7F) @@ (SPC_DSP_MVOLR :> \h7F) @@ (SPC_DSP_DIR :> \h02)

-----------------------------------------------------------------------------
(* Specifications *)

\* main() is not in its sample block, the audio device is paused and no
\* thread holds its lock
NoSink == [pc |-> "run", out_file |-> FALSE, playing |-> 0, left |-> 0, right |-> 0,
           lock |-> "free", len |-> 0, pairs |-> 0]

\* The emulator as the loop of main() is entered from one of the snapshots;
\* the timers' tick counts are kept if count_ticks
InitEmulator(snapshots, count_ticks) ==
    /\ \E snap \in snapshots : state = main_init(snap.ram, snap.dsp_registers, snap.registers)
    /\ next_audio_sample = 0
    /\ last_op = [op |-> "init", addr |-> -1, val |-> -1]
    /\ last_ret = -1
    /\ mix_cycles = NoMix
    /\ mix_out = NoOut
    /\ koff_at = [x \in Voices |-> NoKoff]
    /\ ticks = IF count_ticks THEN [t \in Timers |-> 0] ELSE NoTicks
    /\ nops = 0

\* main() creates the audio buffer before its loop
InitFrom(snapshots, count_ticks) ==
    /\ InitEmulator(snapshots, count_ticks)
    /\ audio_buf = buffer_create(AUDIO_BUFFER_SIZE)
    /\ fifo = <<>>
    /\ sink = NoSink

(* The scheduler: instructions of every cost class that touch no register, *)
(* and debugger commands, with the timers stopped or running              *)

MaxCycle == 150
CycleCosts == {2, 12}

\* Snapshots with the timers stopped or timer 2 running (divisor 2), and
\* with the counter bytes of the RAM image 0x00, or 0x1F (timer 0) and
\* 0x0F (timer 2)
MachineSnapshots ==
    {[ram |-> RamImage((SPC_REG_CONTROL :> control) @@
                       (\hFA :> 1) @@ (\hFB :> 2) @@ (\hFC :> 2) @@
                       (\hFD :> c0) @@ (\hFF :> c0 % 16)),
      dsp_registers |-> DspImage(<<>>),
      registers |-> IdleRegisters] :
        control \in {\h00, \h04}, c0 \in {\h00, \h1F}}

Init == InitFrom(MachineSnapshots, FALSE)

Next ==
    \/ \E n \in CycleCosts : state.cycle < MaxCycle /\ ExecNop(n)
    \/ DebugCommand

Spec == Init /\ [][Next]_vars

(* The memory fabric: sequences of write_byte and read_byte calls *)

MaxMemOps == 3

\* The song snapshot, all timers stopped
SongSnapshot == [ram |-> RamImage(<<>>), dsp_registers |-> DspImage(SongRegs),
      registers |-> IdleRegisters]

\* Ordinary RAM on both sides of the register window and at both ends of the
\* address space, and registers of every kind
MemAddrs == {\h0000, \h00EF, \hF0, \hF1, \hF2, \hF3, \hFA, \hFD, \h0100, \hFFFF}

\* 0x7C is ENDX as a DSP register address; 0x85 is above 127
MemVals == {\h00, \h7C, \h85}

InitMem == InitFrom({SongSnapshot}, FALSE)

NextMem ==
    \/ \E addr \in MemAddrs, val \in MemVals : nops < MaxMemOps /\ WriteByte(addr, val)
    \/ \E addr \in MemAddrs : nops < MaxMemOps /\ ReadByte(addr)

SpecMem == InitMem /\ [][NextMem]_vars

(* The DSP ports: write_byte and read_byte calls at 0xF2 and 0xF3, from *)
(* snapshots whose address port holds any byte                         *)

\* Snapshots of the song with RAM[0xF2] at and next to the ends of 0..127
\* and of 128..255
PortSnapshots ==
    {[ram |-> RamImage((\hF2 :> port)), dsp_registers |-> DspImage(SongRegs),
      registers |-> IdleRegisters] :
        port \in {\h00, SPC_DSP_ENDX, \h7F, \h80, \h85, \hFF}}

InitPort == InitFrom(PortSnapshots, FALSE)

NextPort ==
    \/ \E addr \in {\hF2, \hF3}, val \in MemVals : nops < MaxMemOps /\ WriteByte(addr, val)
    \/ \E addr \in {\hF2, \hF3} : nops < MaxMemOps /\ ReadByte(addr)

SpecPort == InitPort /\ [][NextPort]_vars

(* The timers: instructions of one cost, a few of them register accesses, *)
(* timers running or stopped                                             *)

MaxTimerCycle == 300
MaxTimerOps == 3
TimerCost == 8

\* Snapshots with the timers stopped or all running (divisors 1, 2, 2), and
\* with the counter bytes of the RAM image 0x00, or 0x1F (timer 0) and
\* 0x0F (timer 2)
TimerSnapshots ==
    {[ram |-> RamImage((SPC_REG_CONTROL :> control) @@
                       (\hFA :> 1) @@ (\hFB :> 2) @@ (\hFC :> 2) @@
                       (\hFD :> c0) @@ (\hFF :> c0 % 16)),
      dsp_registers |-> DspImage(<<>>),
      registers |-> IdleRegisters] :
        control \in {\h00, \h07}, c0 \in {\h00, \h1F}}

TimerControls == {\h04, \h07}

InitTimer == InitFrom(TimerSnapshots, FALSE)

NextTimer ==
    \/ state.cycle < MaxTimerCycle /\ ExecNop(TimerCost)
    \/ \E val \in TimerControls :
            /\ state.cycle < MaxTimerCycle
            /\ nops < MaxTimerOps
            /\ ExecWrite(SPC_REG_CONTROL, val, TimerCost)
    \/ \E addr \in SPC_REG_COUNTER0 .. SPC_REG_COUNTER2 :
            /\ state.cycle < MaxTimerCycle
            /\ nops < MaxTimerOps
            /\ ExecRead(addr, TimerCost)

SpecTimer == InitTimer /\ [][NextTimer]_vars

(* The divider: long runs of a timer, restarted early in the run or not *)

MaxDividerCycle == 8400
DividerRestartBy == 200
MaxRestarts == 1
DividerCost == 8

\* Snapshots with timers 0 and 2 running, timer 0 with divisor 1 and timer 2
\* with divisor 0, 1, 3 or 255
DividerSnapshots ==
    {[ram |-> RamImage((SPC_REG_CONTROL :> \h05) @@ (\hFA :> 1) @@ (\hFC :> d)),
      dsp_registers |-> DspImage(<<>>),
      registers |-> IdleRegisters] : d \in {0, 1, 3, 255}}

InitDivider == InitFrom(DividerSnapshots, TRUE)

NextDivider ==
    \/ state.cycle < MaxDividerCycle /\ ExecNop(DividerCost)
    \/ /\ state.cycle < DividerRestartBy
       /\ nops < MaxRestarts
       /\ ExecWrite(SPC_REG_CONTROL, \h05, DividerCost)

SpecDivider == InitDivider /\ [][NextDivider]_vars

(* The voices: DSP register writes at the start of a sample period, and  *)
(* instructions of one cost                                              *)

MaxVoiceCycle == 700
MaxVoiceWrites == 2
VoiceCost == 12

\* Snapshots of the song with voices 0, 1 and 2 keyed on or none, and with
\* the DSP address port selecting KON or KOFF
VoiceSnapshots ==
    {[ram |-> RamImage((\hF2 :> port)),
      dsp_registers |-> DspImage(SongRegs @@ (SPC_DSP_KON :> kon)),
      registers |-> IdleRegisters] :
        port \in {SPC_DSP_KON, SPC_DSP_KOFF}, kon \in {\h00, \h07}}

\* What the program writes: the address port selects KON, KOFF or FLG; the
\* data port takes voice 0, or voices 1, 2 and 7 (with bit 7, the reset bit
\* of FLG)
VoiceWrites ==
    {<<\hF2, SPC_DSP_KON>>, <<\hF2, SPC_DSP_KOFF>>, <<\hF2, SPC_DSP_FLG>>,
     <<\hF3, \h01>>, <<\hF3, \h86>>}

\* The iteration that follows a sample pair: the program writes there
AfterSample == state.cycle - mix_cycles.last < VoiceCost

InitVoice == InitFrom(VoiceSnapshots, FALSE)

NextVoice ==
    \/ state.cycle < MaxVoiceCycle /\ ExecNop(VoiceCost)
    \/ \E w \in VoiceWrites :
            /\ state.cycle < MaxVoiceCycle
            /\ nops < MaxVoiceWrites
            /\ AfterSample
            /\ ExecWrite(w[1], w[2], VoiceCost)

SpecVoice == InitVoice /\ [][NextVoice]_vars

(* The circular buffer: the calls of the buffer test, in any order *)

BufSize == 4

\* Samples the test adds, and what memory outside the allocation can hold
SampleVals == {1, 2, -3}

\* main() of the buffer test creates the buffer
InitBuf ==
    /\ InitEmulator({SongSnapshot}, FALSE)
    /\ audio_buf = buffer_create(BufSize)
    /\ fifo = <<>>
    /\ sink = NoSink

\* A call of buffer_add_one(buf, sample)
BufferAddOne(sample) ==
    LET r == buffer_add_one(audio_buf, sample)
    IN  /\ audio_buf' = r.buf
        /\ fifo' = IF r.ret = 1 THEN Append(fifo, sample) ELSE fifo
        /\ last_op' = [op |-> "add", addr |-> -1, val |-> sample]
        /\ last_ret' = r.ret
        /\ UNCHANGED <<state, next_audio_sample, mix_cycles, mix_out, koff_at, ticks, nops>>

\* A call of buffer_get_one(buf); its assert requires a sample in the buffer
BufferGetOne ==
    /\ buffer_get_len(audio_buf) > 0
    /\ \E val \in HeadValues(audio_buf, SampleVals) :
            LET r == buffer_get_one(audio_buf, val)
            IN  /\ audio_buf' = r.buf
                /\ last_ret' = r.val
    /\ fifo' = Tail(fifo)
    /\ last_op' = [op |-> "get", addr |-> -1, val |-> -1]
    /\ UNCHANGED <<state, next_audio_sample, mix_cycles, mix_out, koff_at, ticks, nops>>

NextBuf ==
    \/ \E sample \in SampleVals : BufferAddOne(sample) /\ UNCHANGED sink
    \/ BufferGetOne /\ UNCHANGED sink

SpecBuf == InitBuf /\ [][NextBuf]_vars

(* The audio sink: the sample block of main() and the audio thread that *)
(* SDL runs audio_callback in, in any interleaving                      *)

MaxPairs == 5

\* main() has run instructions up to a due sample and get_next_mixed_sample
\* has returned the pair (left, right)
SchedMix(left, right) ==
    /\ sink.pc = "run"
    /\ sink.pairs < MaxPairs
    /\ sink' = [sink EXCEPT !.pc = "wait", !.left = left, !.right = right, !.pairs = @ + 1]
    /\ last_op' = [op |-> "mix", addr |-> -1, val |-> -1]
    /\ last_ret' = -1
    /\ UNCHANGED <<state, next_audio_sample, mix_cycles, mix_out, koff_at, ticks, nops,
                   audio_buf, fifo>>

\* A main() that does not wait for room in the buffer
SchedWait_nowait ==
    /\ sink.pc = "wait"
    /\ sink' = [sink EXCEPT !.pc = "lock"]
    /\ last_op' = [op |-> "wait", addr |-> -1, val |-> -1]
    /\ last_ret' = -1
    /\ UNCHANGED <<state, next_audio_sample, mix_cycles, mix_out, koff_at, ticks, nops,
                   audio_buf, fifo>>

\* The test of main()'s while loop, which reads buf->len without the lock:
\* while the buffer is full main() starts the audio device if it is paused
\* and sleeps (SDL_Delay) or, writing to a file, enters dump_buffer_to_file;
\* it goes on to SDL_LockAudioDevice once the buffer is not full
SchedWait ==
    /\ sink.pc = "wait"
    /\ sink' = IF ~buffer_is_full(audio_buf) THEN [sink EXCEPT !.pc = "lock"]
               ELSE IF sink.out_file THEN [sink EXCEPT !.playing = 1, !.pc = "dump"]
               ELSE [sink EXCEPT !.playing = 1]
    /\ last_op' = [op |-> "wait", addr |-> -1, val |-> -1]
    /\ last_ret' = -1
    /\ UNCHANGED <<state, next_audio_sample, mix_cycles, mix_out, koff_at, ticks, nops,
                   audio_buf, fifo>>

\* SDL_LockAudioDevice returns once the audio thread is not in the callback
SchedLock ==
    /\ sink.pc = "lock"
    /\ sink.lock = "free"
    /\ sink' = [sink EXCEPT !.pc = "left", !.lock = "main"]
    /\ last_op' = [op |-> "lock", addr |-> -1, val |-> -1]
    /\ last_ret' = -1
    /\ UNCHANGED <<state, next_audio_sample, mix_cycles, mix_out, koff_at, ticks, nops,
                   audio_buf, fifo>>

\* buffer_add_one(state.audio_buf, left), then buffer_add_one(state.audio_buf,
\* right) and SDL_UnlockAudioDevice
SchedAdd ==
    /\ sink.pc \in {"left", "right"}
    /\ BufferAddOne(IF sink.pc = "left" THEN sink.left ELSE sink.right)
    /\ sink' = IF sink.pc = "left" THEN [sink EXCEPT !.pc = "right"]
                                   ELSE [sink EXCEPT !.pc = "run", !.lock = "free"]

\* The for loop of dump_buffer_to_file: buffer_get_one for every sample the
\* buffer held on entry, then back to the test of main()'s while loop
SchedDump ==
    /\ sink.pc = "dump"
    /\ IF buffer_get_len(audio_buf) > 0
       THEN BufferGetOne /\ UNCHANGED sink
       ELSE /\ sink' = [sink EXCEPT !.pc = "wait"]
            /\ last_op' = [op |-> "return", addr |-> -1, val |-> -1]
            /\ last_ret' = -1
            /\ UNCHANGED <<state, next_audio_sample, mix_cycles, mix_out, koff_at, ticks, nops,
                           audio_buf, fifo>>

\* The audio thread, holding the lock of the device that main() has started,
\* enters audio_callback for len bytes: len is halved and cut to the samples
\* available
CallbackEnter(len) ==
    /\ sink.playing = 1
    /\ ~sink.out_file
    /\ sink.lock = "free"
    /\ sink' = [sink EXCEPT !.lock = "audio",
                            !.len = IF len \div 2 > buffer_get_len(audio_buf)
                                    THEN buffer_get_len(audio_buf) ELSE len \div 2]
    /\ last_op' = [op |-> "callback", addr |-> -1, val |-> len]
    /\ last_ret' = -1
    /\ UNCHANGED <<state, next_audio_sample, mix_cycles, mix_out, koff_at, ticks, nops,
                   audio_buf, fifo>>

\* The while loop of audio_callback: buffer_get_one while len > 0, whose
\* assertion fails on an empty buffer; then the callback returns and the
\* audio thread releases the lock
CallbackLoop ==
    /\ sink.lock = "audio"
    /\ last_op.op # "abort"
    /\ IF sink.len = 0
       THEN /\ sink' = [sink EXCEPT !.lock = "free"]
            /\ last_op' = [op |-> "return", addr |-> -1, val |-> -1]
            /\ last_ret' = -1
            /\ UNCHANGED <<state, next_audio_sample, mix_cycles, mix_out, koff_at, ticks, nops,
                           audio_buf, fifo>>
       ELSE IF buffer_get_len(audio_buf) > 0
       THEN BufferGetOne /\ sink' = [sink EXCEPT !.len = @ - 1]
       ELSE /\ last_op' = [op |-> "abort", addr |-> -1, val |-> -1]
            /\ last_ret' = -1
            /\ UNCHANGED <<state, next_audio_sample, mix_cycles, mix_out, koff_at, ticks, nops,
                           audio_buf, fifo, sink>>

\* main() creates the buffer with AUDIO_BUFFER_SIZE, which is even (2 * 4000):
\* here it has room for n pairs of samples; out_file is set with -o
InitSink ==
    /\ InitEmulator({SongSnapshot}, FALSE)
    /\ \E n \in 1 .. BufSize \div 2 : audio_buf = buffer_create(2 * n)
    /\ fifo = <<>>
    /\ sink \in {[NoSink EXCEPT !.out_file = f] : f \in BOOLEAN}

\* The pairs the mixer returns, and the bytes the device asks for: one
\* stereo frame, or more than the buffer holds
NextSink ==
    \/ \E pair \in {<<1, 2>>, <<-3, 1>>} : SchedMix(pair[1], pair[2])
    \/ SchedWait
    \/ SchedLock
    \/ SchedAdd
    \/ SchedDump
    \/ \E len \in {4, 12} : CallbackEnter(len)
    \/ CallbackLoop

SpecSink == InitSink /\ [][NextSink]_vars

(* The CPU: a subroutine call and return, a push and pop of A, and an *)
(* addition, from every stack pointer, accumulator, operand and carry *)

MaxCpuCycle == 24

\* Bytes at and next to the ends of the unsigned and of the signed range
ByteVals == {\h00, \h01, \h7F, \h80, \hFE, \hFF}

\* Stack pointers at both ends of the stack page and inside it
StackPointers == {\h00, \h01, \hEF, \hFF}

\* Snapshots entered at 0x1000 where CALL $2000 is, with RET at 0x2000,
\* PUSH A, POP A and ADC A,#m after the call, and a stack page of 0x55
CpuSnapshots ==
    {[ram |-> RamImage([addr \in \h0100 .. \h01FF |-> \h55] @@
                       (\h1000 :> \h3F) @@ (\h1001 :> \h00) @@ (\h1002 :> \h20) @@
                       (\h1003 :> \h2D) @@ (\h1004 :> \hAE) @@
                       (\h1005 :> \h88) @@ (\h1006 :> m) @@
                       (\h2000 :> \h6F)),
      dsp_registers |-> DspImage(<<>>),
      registers |-> Registers(\h1000, a, sp, c)] :
        m \in ByteVals, a \in ByteVals, sp \in StackPointers, c \in {0, 1}}

InitCpu == InitFrom(CpuSnapshots, FALSE)

NextCpu == state.cycle < MaxCpuCycle /\ ExecInstruction

SpecCpu == InitCpu /\ [][NextCpu]_vars

(* The ALU: SBC A,#imm, every form of CMP, ADDW and SUBW, each run from *)
(* its own entry point with operands at and next to the ends of the     *)
(* unsigned and signed ranges                                           *)

MaxAluCycle == 8

\* The instructions of the ALU snapshots with the immediate operand m, one
\* per entry point: SBC A,#m; CMP A,#m; CMP X,#m; CMP Y,#m; CMP A,$20;
\* CMP A,$0020; CMP X,$0020; CMP X,$20; CMP Y,$20; CMP A,$20+X;
\* CMP A,$0400+X; CMP A,$0400+Y; CMP $30,#m; CMP $30,$20; CMP A,$FD;
\* ADDW YA,$40; SUBW YA,$40; CMP A,(X) and STOP, which have no case;
\* ADC A,$20+X; CLRP; SETP; CLRC; SETC; NOTC; NOP; CLRV, EI, DI, SLEEP and
\* BRK, which have no case; MOV X,$0020; MOV Y,$0020; DIV YA,X
AluProgram(m) ==
    << <<\hA8, m>>, <<\h68, m>>, <<\hC8, m>>, <<\hAD, m>>,
       <<\h64, \h20>>, <<\h65, \h20, \h00>>, <<\h1E, \h20, \h00>>, <<\h3E, \h20>>,
       <<\h7E, \h20>>, <<\h74, \h20>>, <<\h75, \h00, \h04>>, <<\h76, \h00, \h04>>,
       <<\h78, m, \h30>>, <<\h69, \h20, \h30>>, <<\h64, \hFD>>,
       <<\h7A, \h40>>, <<\h9A, \h40>>, <<\h66>>, <<\hFF>>,
       <<\h94, \h20>>,
       <<\h20>>, <<\h40>>, <<\h60>>, <<\h80>>, <<\hED>>, <<\h00>>,
       <<\hE0>>, <<\hA0>>, <<\hC0>>, <<\hEF>>, <<\h0F>>,
       <<\hE9, \h20, \h00>>, <<\hEC, \h20, \h00>>, <<\h9E>> >>

\* The entry point of the k-th instruction; the bytes up to the next entry
\* point are 0x00 (NOP)
AluEntry(k) == \h1100 + 16 * (k - 1)

\* The RAM cells of the program
AluCode(program) ==
    [addr \in UNION {AluEntry(k) .. (AluEntry(k) + Len(program[k]) - 1) : k \in DOMAIN program} |->
        program[((addr - \h1100) \div 16) + 1][((addr - \h1100) % 16) + 1]]

\* The snapshot entered at the k-th instruction with registers a, x, y and
\* carry c (V as the carry, H its complement), the byte m where the memory
\* operands and counter 0 are, a at 0x30, and the word mw at 0x40
AluSnapshot(k, a, x, y, c, m, mw) ==
    [ram |-> RamImage(AluCode(AluProgram(m)) @@ (\h30 :> a) @@ Word(\h40, mw) @@
                      [addr \in {\h20, \h20 + x, \h0400 + x, \h0400 + y, \hFD} |-> m]),
     dsp_registers |-> DspImage(<<>>),
     registers |-> [Registers(AluEntry(k), a, \hEF, c)
                        EXCEPT !.x = x, !.y = y, !.psw.v = c, !.psw.h = 1 - c]]

\* Words at and next to the ends of the unsigned and of the signed range
WordVals == {\h0000, \h0001, \h0080, \h7FFF, \h8000, \hFFFF}

AluSnapshots ==
    {AluSnapshot(k, a, (a + 1) % 256, (a + 2) % 256, c, m, 0) :
        k \in (1 .. 15) \cup (18 .. 20) \cup (32 .. 33),
        a \in ByteVals, m \in ByteVals, c \in {0, 1}}
    \cup
    {AluSnapshot(k, a, (a + 1) % 256, (a + 2) % 256, c, 0, 0) :
        k \in 21 .. 31, a \in ByteVals, c \in {0, 1}}
    \cup
    {AluSnapshot(34, get_low(ya), x, get_high(ya), c, 0, 0) :
        ya \in WordVals, x \in ByteVals, c \in {0, 1}}
    \cup
    {AluSnapshot(k, get_low(ya), 0, get_high(ya), c, 0, mw) :
        k \in 16 .. 17, ya \in WordVals, mw \in WordVals, c \in {0, 1}}

InitAlu == InitFrom(AluSnapshots, FALSE)

NextAlu == state.cycle < MaxAluCycle /\ ExecInstruction

SpecAlu == InitAlu /\ [][NextAlu]_vars

(* The pitch counter: voice 0 plays source 0 at a pitch that divides *)
(* 0x10000, through instructions of two costs                        *)

MaxPitchCycle == 1300
PitchCosts == {16, 24}

\* Snapshots of the song with voice 0 keyed on at pitch 0x1000 or 0x2000
PitchSnapshots ==
    {[ram |-> RamImage(<<>>),
      dsp_registers |-> DspImage((SPC_DSP_VxPITCHL :> \h00) @@ (SPC_DSP_VxPITCHH :> pitchh) @@
                                 SongRegs @@ (SPC_DSP_KON :> \h01)),
      registers |-> IdleRegisters] :
        pitchh \in {\h10, \h20}}

InitPitch == InitFrom(PitchSnapshots, FALSE)

NextPitch == \E n \in PitchCosts : state.cycle < MaxPitchCycle /\ ExecNop(n)

SpecPitch == InitPitch /\ [][NextPitch]_vars

-----------------------------------------------------------------------------
(* The sample directory in the register window: voice 0 plays a looping *)
(* source whose directory entry lies at 0x00FC, 0x00F4 or 0x0200        *)

MaxDirCycle == 520

\* Snapshots with all timers stopped, voice 0 keyed on, and the directory
\* entry of its source at 0x00FC (DIR 0, SRCN 0x3F: start word in T2DIV and
\* T0OUT, loop word in T1OUT and T2OUT), at 0x00F4 (DIR 0, SRCN 0x3D: the
\* I/O ports) or at 0x0200 (DIR 2, SRCN 0); every entry names the looping
\* block at 0x0309
DirSnapshots ==
    {[ram |-> RamImage(Word(\h00F4, \h0309) @@ Word(\h00F6, \h0309) @@
                       Word(\h00FC, \h0309) @@ Word(\h00FE, \h0309) @@
                       Word(\h0200, \h0309)),
      dsp_registers |-> DspImage((SPC_DSP_DIR :> e[1]) @@ (SPC_DSP_VxSCRN :> e[2]) @@
                                 SongRegs @@ (SPC_DSP_KON :> \h01)),
      registers |-> IdleRegisters] :
        e \in {<<\h00, \h3F>>, <<\h00, \h3D>>, <<\h02, \h00>>}}

InitDir == InitFrom(DirSnapshots, FALSE)

NextDir == \E n \in PitchCosts : state.cycle < MaxDirCycle /\ ExecNop(n)

SpecDir == InitDir /\ [][NextDir]_vars

-----------------------------------------------------------------------------

(* Claims *)

\* C1: after every scheduler iteration the number of sample pairs produced
\* equals the number of 64-cycle sample periods elapsed on the cycle counter.
C1_PairsEqualElapsedPeriods ==
    state.sample_counter = state.cycle \div AUDIO_SAMPLE_PERIOD

\* C2: between two consecutive calls of the mixer by the scheduler the cycle
\* counter has advanced by at least 64.
C2_MixerCallsAPeriodApart ==
    mix_cycles.gap # -1 => mix_cycles.gap >= AUDIO_SAMPLE_PERIOD

\* Three pairs were produced, the last more than 64 cycles after the second
C2_Witness ==
    state.sample_counter >= 3 /\ mix_cycles.gap > AUDIO_SAMPLE_PERIOD

\* C3: for every address a outside {0xF3, 0xFD, 0xFE, 0xFF} and every byte v,
\* write_byte(a, v) immediately followed by read_byte(a) returns v.
C3_RoundTrip ==
    [][(/\ last_op.op = "write"
        /\ last_op'.op = "read"
        /\ last_op'.addr = last_op.addr
        /\ last_op.addr \notin {\hF3, \hFD, \hFE, \hFF})
       => last_ret' = last_op.val]_vars

\* A read of 0xF2 returned 0x85, a value above 127 that only a write put there
C3_Witness ==
    last_op.op = "read" /\ last_op.addr = \hF2 /\ last_ret = \h85

\* C4: in every reachable state each timer's output counter is in 0..15, and
\* every value returned by a read of 0xFD-0xFF is in 0..15.
C4_CountersFourBit ==
    /\ \A t \in Timers : state.timers.counter[t] \in 0 .. 15
    /\ (last_op.op = "read" /\ last_op.addr \in SPC_REG_COUNTER0 .. SPC_REG_COUNTER2)
            => last_ret \in 0 .. 15

\* The period D of a latched divisor d: d for 1..255, 256 for 0
DividerPeriod(d) == IF d = 0 THEN 256 ELSE d

\* C5: for an enabled timer with latched divisor d, after n ticks since it was
\* enabled the pre-divider is n mod D and the output counter is (n div D)
\* mod 16, D = d for d in 1..255 and D = 256 for d = 0: the counter is
\* incremented exactly on every D-th tick and the pre-divider reset there.
C5_Divider ==
    \A t \in Timers :
        BitSet(Ram(state, SPC_REG_CONTROL), t) =>
            LET D == DividerPeriod(state.timers.divisor[t])
            IN  /\ state.timers.timer[t] = ticks[t] % D
                /\ state.timers.counter[t] = (ticks[t] \div D) % 16

\* Timer 2, with divisor 0, made its first increment at its 256th tick, and
\* timer 0, with divisor 1, wrapped its counter from 15 to 0
C5_Witness ==
    /\ state.timers.divisor[2] = 0
    /\ ticks[2] = 256
    /\ state.timers.counter[2] = 1
    /\ ticks[0] > 16
    /\ state.timers.counter[0] = ticks[0] % 16

\* timer took no tick in this step
NoTick(timer) == state'.timers.next_timer[timer] = state.timers.next_timer[timer]

C7_EnvelopeRange ==
    \A x \in Voices : state.voices[x].adsr.env \in 0 .. 2047

\* C8: every enabled voice has a non-null decoded BRR block, decoded from RAM
\* at the voice's cur_addr.
C8_EnabledVoiceHasBlock ==
    \A x \in Voices :
        state.voices[x].enabled # 0 =>
            /\ state.voices[x].block # NoBlock
            /\ state.voices[x].block.addr = state.voices[x].cur_addr

\* Voice 0 was keyed off and still plays the block at 0x0309, which it has
\* looped back to at the tenth sample, while voice 1 has ended
C8_Witness ==
    /\ state.sample_counter >= 10
    /\ state.voices[0].enabled = 1
    /\ state.voices[0].adsr.cur_phase = SPC_VOICE_RELEASE
    /\ state.voices[0].cur_addr = \h0309
    /\ BitSet(state.dsp_registers[SPC_DSP_ENDX], 0)
    /\ state.voices[1].enabled = 0
    /\ state.voices[1].block = NoBlock

\* This step ran an instruction that touches no register and produced a pair
SampleStep ==
    last_op'.op = "nop" /\ state'.sample_counter = state.sample_counter + 1

\* C9: a voice that is in Release with envelope 0 when a sample is produced is
\* disabled after that sample.
C9_ReleasedVoiceDisabled ==
    [][\A x \in Voices :
            (/\ SampleStep
             /\ state.voices[x].enabled = 1
             /\ state.voices[x].adsr.cur_phase = SPC_VOICE_RELEASE
             /\ state.voices[x].adsr.env = 0)
            => state'.voices[x].enabled = 0]_vars

\* Samples allowed beyond the time Release takes to bring an envelope to 0
ReleaseSlack == 8

\* C10: a voice keyed off while enabled, and not keyed on again, is disabled
\* once the samples that Release needs for the envelope it had at key-off
\* (8 per sample), and ReleaseSlack more, have been produced.
C10_KeyOffSilences ==
    \A x \in Voices :
        (/\ koff_at[x] # NoKoff
         /\ state.sample_counter - koff_at[x].at > (koff_at[x].env \div 8) + ReleaseSlack)
        => state.voices[x].enabled = 0

\* An iteration whose instruction writes val to the DSP data port while the
\* address port selects reg, and in which no sample pair is produced
DspWriteStep(reg, val) ==
    /\ state.current_dsp_register = reg
    /\ last_op' = [op |-> "write", addr |-> \hF3, val |-> val]
    /\ mix_cycles' = mix_cycles

\* C11: a write to FLG with bit 7 set leaves every voice in phase Release; a
\* write to FLG with bit 7 clear changes no voice state.
C11_FlgResetKeysOffAll ==
    [][\A val \in 0 .. 255 :
            DspWriteStep(SPC_DSP_FLG, val)
            => IF BitSet(val, 7)
               THEN \A x \in Voices : state'.voices[x].adsr.cur_phase = SPC_VOICE_RELEASE
               ELSE state'.voices = state.voices]_vars

\* FLG was written with bit 7 set while voice 0 was playing in the middle of
\* its envelope
C11_Witness ==
    /\ last_op = [op |-> "write", addr |-> \hF3, val |-> \h86]
    /\ state.current_dsp_register = SPC_DSP_FLG
    /\ state.voices[0].enabled = 1
    /\ state.voices[0].adsr.env > 0
    /\ \A x \in Voices : state.voices[x].adsr.cur_phase = SPC_VOICE_RELEASE

\* Voice x has played its block to the end: the sample produced in this step
\* makes it move on from a block whose header has last = 1
ConsumesLastBlock(x) ==
    /\ SampleStep
    /\ state.voices[x].enabled = 1
    /\ state.voices[x].counter > 65536
    /\ state.voices[x].block.last_chunk = 1

\* This step ran an instruction that wrote the DSP register ENDX
EndxWriteStep ==
    /\ state.current_dsp_register = SPC_DSP_ENDX
    /\ last_op'.op = "write"
    /\ last_op'.addr = \hF3

\* C12: once a voice has consumed a block whose header has last = 1, its ENDX
\* bit is 1, and an ENDX bit that is 1 stays 1 until ENDX is written.
C12_EndxOnEndOfSample ==
    [][\A x \in Voices :
            /\ ConsumesLastBlock(x) => BitSet(state'.dsp_registers[SPC_DSP_ENDX], x)
            /\ (BitSet(state.dsp_registers[SPC_DSP_ENDX], x) /\ ~EndxWriteStep)
                    => BitSet(state'.dsp_registers[SPC_DSP_ENDX], x)]_vars

\* C13: after a write of v to 0xF2 the current DSP register index is v masked
\* to 7 bits.
C13_IndexMaskedToSevenBits ==
    [][(last_op'.op = "write" /\ last_op'.addr = \hF2)
            => state'.current_dsp_register = last_op'.val % 128]_vars

\* Voice x was keyed on and has produced no sample since: kon_voice left its
\* counter at 0, and every sample advances it by the pitch
JustKeyedOn(x) ==
    /\ state.voices[x].enabled = 1
    /\ state.voices[x].counter = 0
    /\ state.voices[x].adsr.cur_phase = SPC_VOICE_ATTACK
    /\ state.voices[x].adsr.env = 0

\* C14: once the first sample of a voice keyed on in ADSR mode with ar = 15
\* has been produced, its envelope is at the maximum 2047 and it is in Decay.
C14_FastAttackInOneSample ==
    [][\A x \in Voices :
            (/\ SampleStep
             /\ JustKeyedOn(x)
             /\ state.voices[x].adsr.use_adsr = 1
             /\ state.voices[x].adsr.ar = 15)
            => /\ state'.voices[x].adsr.env = 2047
               /\ state'.voices[x].adsr.cur_phase = SPC_VOICE_DECAY]_vars

\* A value saturated to the signed 16-bit range
Saturate16(x) == IF x > 32767 THEN 32767 ELSE IF x < -32768 THEN -32768 ELSE x

\* This step produced a sample pair with the mixer not muted
PairStep ==
    /\ state'.sample_counter = state.sample_counter + 1
    /\ ~BitSet(get_dsp(state', SPC_DSP_FLG), 6)

\* C15: each channel value handed to the sink is the sum of the voice
\* contributions times the master volume, shifted right by 7 and saturated to
\* the signed 16-bit range, on the left and on the right.
C15_MixSaturates ==
    [][PairStep =>
            /\ mix_out'.left = Saturate16(Shr(mix_out'.lsum * get_dsp(state', SPC_DSP_MVOLL), 7))
            /\ mix_out'.right = Saturate16(Shr(mix_out'.rsum * get_dsp(state', SPC_DSP_MVOLR), 7))]_vars

\* This step is a call of buffer_get_one
GetStep == last_op'.op = "get"

\* This step is a call of buffer_add_one
AddStep == last_op'.op = "add"

\* C16: buffer_get_one returns the oldest of the samples that were added and
\* not yet returned, whatever the number of times head and tail have wrapped.
C16_FifoOrder ==
    [][GetStep => last_ret' = Head(fifo)]_vars

\* C17: buffer_add_one on a full buffer returns 0 and leaves the buffer as it
\* is; on a buffer that is not full it returns 1 and stores the sample at the
\* tail.
C17_AddOnFullRefused ==
    [][AddStep =>
            IF audio_buf.len = audio_buf.size
            THEN last_ret' = 0 /\ audio_buf' = audio_buf
            ELSE /\ last_ret' = 1
                 /\ audio_buf'.data[audio_buf.tail] = last_op'.val
                 /\ audio_buf'.len = audio_buf.len + 1]_vars

\* An add was refused on a buffer that is full and whose tail has wrapped
C17_Witness ==
    /\ last_op.op = "add"
    /\ last_ret = 0
    /\ audio_buf.len = audio_buf.size
    /\ audio_buf.head = 2

\* C18: the length is the number of successful adds less the number of gets,
\* the free space is the size less the length, the length stays in 0..size,
\* head and tail stay in 0..size-1, and tail = (head + len) mod size.
C18_Accounting ==
    /\ buffer_get_len(audio_buf) = Len(fifo)
    /\ buffer_get_free(audio_buf) = audio_buf.size - buffer_get_len(audio_buf)
    /\ audio_buf.len \in 0 .. audio_buf.size
    /\ audio_buf.head \in 0 .. (audio_buf.size - 1)
    /\ audio_buf.tail \in 0 .. (audio_buf.size - 1)
    /\ audio_buf.tail = (audio_buf.head + audio_buf.len) % audio_buf.size

\* A sample was returned and the buffer was filled again: the tail has
\* wrapped around the end of the storage
C18_Witness ==
    /\ last_op.op = "add"
    /\ last_ret = 1
    /\ audio_buf.len = audio_buf.size
    /\ audio_buf.head = 1
    /\ audio_buf.tail = 1
    /\ audio_buf.size = BufSize

\* The step before this one ran the instruction of the opcode
RanBefore(opcode) == last_op.op = "exec" /\ last_op.val = opcode

\* This step runs the instruction of the opcode
RunsNow(opcode) == last_op'.op = "exec" /\ last_op'.val = opcode



\* C19: POP A run right after PUSH A returns the byte that was pushed, loads
\* it in A and puts SP back, from every SP including 0x00, where the push
\* wraps to 0xFF; RET run right after CALL $aaaa at PC sets PC to PC+3 and
\* puts SP back, the call having stored the high byte of PC+3 at 0x0100+SP
\* and the low byte one below (modulo 256)
C19_StackRoundTrips ==
    [][/\ (RanBefore(\h2D) /\ RunsNow(\hAE)) =>
            /\ last_ret' = last_op.a
            /\ state'.regs.a = last_op.a
            /\ state'.regs.sp = last_op.sp
       /\ (RanBefore(\h3F) /\ RunsNow(\h6F)) =>
            /\ state'.regs.pc = (last_op.addr + 3) % 65536
            /\ state'.regs.sp = last_op.sp
            /\ Ram(state, \h0100 + last_op.sp) = ((last_op.addr + 3) \div 256) % 256
            /\ Ram(state, \h0100 + ((last_op.sp + 255) % 256)) = (last_op.addr + 3) % 256
      ]_vars

\* POP A has run after PUSH A at SP 0x00, which wrapped to 0xFF: A is the
\* pushed 0x80 and not the 0x55 that filled the stack page, SP is 0x00 again,
\* and the low byte 0x03 of the return address of the earlier CALL at 0x1000,
\* which RET took the program back from, is at 0x01FF
C19_Witness ==
    /\ last_op.op = "exec" /\ last_op.val = \hAE /\ last_op.sp = \hFF
    /\ last_ret = \h80
    /\ state.regs.a = \h80 /\ state.regs.sp = \h00 /\ state.regs.pc = \h1005
    /\ Ram(state, \h0100) = \h80 /\ Ram(state, \h01FF) = \h03

\* r = [val, s] is what the claim has ADC return and leave in the flags for
\* the accumulator A, the operand M and the carry C
AdcAsClaimed(A, M, C, r) ==
    LET sum == A + M + C
        signed == (IF A > 127 THEN A - 256 ELSE A) + (IF M > 127 THEN M - 256 ELSE M) + C
    IN  /\ r.val = sum % 256
        /\ r.s.regs.psw.c = (IF sum > 255 THEN 1 ELSE 0)
        /\ r.s.regs.psw.v = (IF signed < -128 \/ signed > 127 THEN 1 ELSE 0)
        /\ r.s.regs.psw.n = (sum % 256) \div 128
        /\ r.s.regs.psw.z = (IF sum % 256 = 0 THEN 1 ELSE 0)

\* This step runs ADC A,#M with the accumulator A and the carry C
AdcStep(A, M, C) ==
    /\ RunsNow(\h88)
    /\ state.regs.a = A /\ Ram(state, state.regs.pc + 1) = M /\ state.regs.psw.c = C

\* C20: ADC A,#M leaves (A + M + C) mod 256 in A, C = (A + M + C > 0xFF),
\* V = 1 iff the sum of A and M as signed bytes plus C is outside -128..127,
\* N = bit 7 of the result and Z = (result = 0); 0xFF + 0x01 with the carry
\* clear gives A = 0x00, C = 1, Z = 1, N = 0, V = 0 and 0x7F + 0x01 with the
\* carry clear gives V = 1, N = 1, Z = 0; and do_adc, called in the first
\* snapshot with every dst and operand of 0..255 and either carry, returns
\* that result and leaves those flags
C20_AdcResultAndFlags ==
    [][/\ RunsNow(\h88) =>
            AdcAsClaimed(state.regs.a, Ram(state, state.regs.pc + 1), state.regs.psw.c,
                         [val |-> state'.regs.a, s |-> state'])
       /\ AdcStep(\hFF, \h01, 0) =>
            /\ state'.regs.a = \h00
            /\ state'.regs.psw.c = 1 /\ state'.regs.psw.z = 1
            /\ state'.regs.psw.n = 0 /\ state'.regs.psw.v = 0
       /\ AdcStep(\h7F, \h01, 0) =>
            state'.regs.psw.v = 1 /\ state'.regs.psw.n = 1 /\ state'.regs.psw.z = 0
       /\ (last_op.op = "init" /\ state.regs = Registers(\h1000, 0, 0, 0)
                /\ Ram(state, \h1006) = 0) =>
            \A A \in 0 .. 255, M \in 0 .. 255, C \in 0 .. 1 :
                AdcAsClaimed(A, M, C, do_adc([state EXCEPT !.regs.psw.c = C], A, M))
      ]_vars

\* ADC A,#0x01 has run with A = 0xFF and the carry clear: A is 0x00 with C
\* and Z set and N and V clear
C20_Witness ==
    /\ last_op.op = "exec" /\ last_op.val = \h88 /\ last_op.a = \hFF
    /\ Ram(state, \h1006) = \h01
    /\ state.regs.a = \h00
    /\ state.regs.psw.c = 1 /\ state.regs.psw.z = 1
    /\ state.regs.psw.n = 0 /\ state.regs.psw.v = 0

\* C21: SBC A,#M leaves (A - M - (1 - C)) mod 256 in A and sets the carry
\* exactly when A >= M + (1 - C), the borrow in included; H equals V after
\* the instruction
C21_SbcResultAndCarry ==
    [][RunsNow(\hA8) =>
            LET A == state.regs.a
                M == Ram(state, state.regs.pc + 1)
                C == state.regs.psw.c
            IN  /\ state'.regs.a = (A - M - (1 - C)) % 256
                /\ state'.regs.psw.c = (IF A >= M + (1 - C) THEN 1 ELSE 0)
                /\ state'.regs.psw.h = state'.regs.psw.v
      ]_vars

\* This step runs one of the forms of CMP
RunsCmp ==
    /\ last_op'.op = "exec"
    /\ last_op'.val \in {\h1E, \h3E, \h64, \h65, \h68, \h69, \h74, \h75, \h76, \h78, \h7E, \hAD, \hC8}

\* The memory operand of the CMP that this step runs is counter 0 (0xFD)
CmpReadsCounter == Ram(state, state.regs.pc) = \h64 /\ Ram(state, state.regs.pc + 1) = \hFD

\* The first operand of the CMP at PC: X, Y, the byte at 0x30 or A
CmpOperand1 ==
    LET opcode == Ram(state, state.regs.pc)
    IN  IF opcode \in {\hC8, \h1E, \h3E} THEN state.regs.x
        ELSE IF opcode \in {\hAD, \h7E} THEN state.regs.y
        ELSE IF opcode \in {\h78, \h69} THEN Ram(state, \h30)
        ELSE state.regs.a

\* The second operand of the CMP at PC: counter 0, or the byte that the
\* snapshot has as the immediate operand and at the operand's address
CmpOperand2 == IF CmpReadsCounter THEN state.timers.counter[0] ELSE Ram(state, \h20)

\* The step sets C = (op1 >= op2), Z = (op1 = op2) and N = bit 7 of
\* (op1 - op2) mod 256, and leaves A, X, Y, SP, the other flags and RAM
CmpFlagsOnly ==
    /\ state'.regs.psw.c = (IF CmpOperand1 >= CmpOperand2 THEN 1 ELSE 0)
    /\ state'.regs.psw.z = (IF CmpOperand1 = CmpOperand2 THEN 1 ELSE 0)
    /\ state'.regs.psw.n = ((CmpOperand1 - CmpOperand2) % 256) \div 128
    /\ CmpOperand1 = CmpOperand2 => (state'.regs.psw.z = 1 /\ state'.regs.psw.c = 1)
    /\ [state'.regs EXCEPT !.pc = 0, !.psw.c = 0, !.psw.z = 0, !.psw.n = 0]
            = [state.regs EXCEPT !.pc = 0, !.psw.c = 0, !.psw.z = 0, !.psw.n = 0]
    /\ state'.ram = state.ram

Signed16(w) == IF w >= 32768 THEN w - 65536 ELSE w

\* After the step YA is the 16-bit result, the carry is carry, V says whether
\* the signed result is outside the 16-bit range, N is bit 15 of the result
\* and Z says whether the result is 0
WordFlags(result, carry, signed) ==
    /\ state'.regs.y = (result \div 256) % 256
    /\ state'.regs.a = result % 256
    /\ state'.regs.psw.c = (IF carry THEN 1 ELSE 0)
    /\ state'.regs.psw.v = (IF signed < -32768 \/ signed > 32767 THEN 1 ELSE 0)
    /\ state'.regs.psw.n = (result % 65536) \div 32768
    /\ state'.regs.psw.z = (IF result % 65536 = 0 THEN 1 ELSE 0)

\* C23: ADDW YA,$40 and SUBW YA,$40 leave the 16-bit result in Y (high) and
\* A (low), C = (YA + M > 0xFFFF) for ADDW and (YA >= M) for SUBW, V = the
\* signed overflow of the operation at 16 bits, N = bit 15 of the result and
\* Z = (the 16-bit result is 0)
C23_WordArithmeticFlags ==
    [][LET YA == state.regs.y * 256 + state.regs.a
           M == Ram(state, \h41) * 256 + Ram(state, \h40)
       IN  /\ RunsNow(\h7A) =>
                WordFlags((YA + M) % 65536, YA + M > 65535, Signed16(YA) + Signed16(M))
           /\ RunsNow(\h9A) =>
                WordFlags((YA - M) % 65536, YA >= M, Signed16(YA) - Signed16(M))
      ]_vars

\* C24: from a state whose instruction at PC has no case in the executor,
\* the only step is the exit: PC, A, X, Y, SP, PSW, RAM, the cycle counter,
\* the timers and the voices (all of `state'), the sample clock, the last
\* pair mixed and the audio buffer are as they were; and once the process
\* has exited no step follows, so that no instruction is executed and no
\* sample is produced
C24_UnknownOpcodeIsFatal ==
    [][/\ Ram(state, state.regs.pc) \in Unimplemented =>
            /\ last_op'.op = "exit"
            /\ state' = state
            /\ next_audio_sample' = next_audio_sample
            /\ mix_cycles' = mix_cycles /\ mix_out' = mix_out
            /\ audio_buf' = audio_buf
       /\ last_op.op # "exit"
      ]_vars

\* The process has exited at CMP A,(X) (0x66), the first instruction of the
\* snapshot: no cycle has elapsed, no sample was mixed, and PC and A are
\* those of the snapshot
C24_Witness ==
    /\ last_op.op = "exit" /\ last_op.val = \h66
    /\ state.regs.pc = last_op.addr /\ state.regs.a = \h7F /\ state.regs.psw.c = 1
    /\ state.cycle = 0 /\ state.sample_counter = 0
    /\ mix_out = NoOut

\* C25: each time an enabled timer ticks, its next tick is due one period
\* (256 cycles for timers 0 and 1, 32 for timer 2) after the cycle at which
\* the tick that was taken was due, wherever the instruction ended
C25_TickKeepsPhase ==
    [][\A t \in Timers :
            (/\ BitSet(Ram(state, SPC_REG_CONTROL), t)
             /\ last_op'.op # "write"
             /\ state'.timers.next_timer[t] # state.timers.next_timer[t])
            => state'.timers.next_timer[t] = state.timers.next_timer[t] + TIMER_CYCLES[t + 1]
      ]_vars

\* The fields of a timer: next tick, pre-divider, output counter and latched
\* divisor
TimerFields(s, t) ==
    <<s.timers.next_timer[t], s.timers.timer[t], s.timers.counter[t], s.timers.divisor[t]>>

\* C26: after a write to Control with bit t clear every field of timer t is
\* zero, the latched divisor included, whatever RAM[0xFA + t] holds; and the
\* fields of a disabled timer are unchanged by an iteration that only ticks
C26_DisableZeroesTimer ==
    [][\A t \in Timers :
            /\ (/\ last_op'.op = "write" /\ last_op'.addr = SPC_REG_CONTROL
                /\ ~BitSet(last_op'.val, t))
               => TimerFields(state', t) = <<0, 0, 0, 0>>
            /\ (~BitSet(Ram(state, SPC_REG_CONTROL), t) /\ last_op'.op = "nop")
               => TimerFields(state', t) = TimerFields(state, t)
      ]_vars

\* The samples of the block of the header and payload at addr, decoded with
\* the filter history (0, 0)
FreshSamples(s, addr) ==
    DecodeNibbles(s, addr, (Ram(s, addr) \div 4) % 4, (Ram(s, addr) \div 16) % 16,
                  0, <<0, 0>>, <<>>).samples

\* C27: after a write to KON with the bit of voice x set, the interpolation
\* history of x is (0, 0, 0) and its first block holds the samples that the
\* decoder gives from the filter history (0, 0), whatever x played before
C27_KeyOnClearsHistory ==
    [][\A x \in Voices :
            (DspWriteStep(SPC_DSP_KON, last_op'.val) /\ BitSet(last_op'.val, x))
            => /\ state'.voices[x].prev_interp = <<0, 0, 0>>
               /\ state'.voices[x].block.samples
                    = FreshSamples(state', state'.voices[x].cur_addr)
      ]_vars

\* C28: when a sample of an enabled voice is due and its pitch counter is at
\* or above 0x10000, the counter is reduced modulo 0x10000 (and the next
\* block decoded) before the sample is selected, so that the counter after
\* the sample is the reduced counter plus the pitch; and at pitch 0x1000 the
\* first sample selected from a newly decoded block is its sample 0
C28_BlockAdvanceOnOverflow ==
    [][\A x \in Voices :
            (/\ SampleStep
             /\ state.voices[x].enabled = 1
             /\ state'.voices[x].enabled = 1)
            => LET pitch == get_voice_pitch(state, x)
               IN  /\ state'.voices[x].counter = (state.voices[x].counter % 65536) + pitch
                   /\ (pitch = \h1000 /\ state'.voices[x].cur_addr # state.voices[x].cur_addr)
                        => state'.voices[x].counter = \h1000
      ]_vars

\* The block is the last one of a sample that does not loop
EndsSample(block) == block.last_chunk = 1 /\ block.loop_flag = 0

\* C29: a sample of an enabled voice that is not in Release and whose
\* current block is not the last block of a non-looping sample leaves the
\* voice enabled and out of Release: the voice is ended only by the sample
\* that finds a last, non-looping block consumed, never by the one that
\* decodes it
C29_LastBlockIsPlayed ==
    [][\A x \in Voices :
            (/\ SampleStep
             /\ state.voices[x].enabled = 1
             /\ state.voices[x].adsr.cur_phase # SPC_VOICE_RELEASE
             /\ ~EndsSample(state.voices[x].block))
            => /\ state'.voices[x].enabled = 1
               /\ state'.voices[x].adsr.cur_phase # SPC_VOICE_RELEASE
      ]_vars

\* C30: once a voice in GAIN mode (VxADSR1 bit 7 clear) whose GAIN byte has
\* bit 7 clear has produced a sample, its envelope is (GAIN & 0x7F) << 4,
\* whatever it was before, 0 after key-on included
C30_DirectGainSetsEnvelope ==
    [][\A x \in Voices :
            (/\ SampleStep
             /\ state.voices[x].enabled = 1
             /\ state'.voices[x].enabled = 1
             /\ state.voices[x].adsr.cur_phase # SPC_VOICE_RELEASE
             /\ ~BitSet(get_dsp_voice(state, x, SPC_DSP_VxADSR1), 7)
             /\ ~BitSet(get_dsp_voice(state, x, SPC_DSP_VxGAIN), 7))
            => state'.voices[x].adsr.env = (get_dsp_voice(state, x, SPC_DSP_VxGAIN) % 128) * 16
      ]_vars


\* C31: after a block is decoded, prev_brr[1] holds the filtered output of the
\* last sample decoded and prev_brr[0] that of the sample before it, for every
\* filter (prev_brr is <<prev[0], prev[1]>>; samples are numbered from 1)
C31_FilterFeedsBackOutputs ==
    \A x \in Voices :
        ~state.voices[x].block.null
        => /\ state.voices[x].prev_brr[2] = state.voices[x].block.samples[16]
           /\ state.voices[x].prev_brr[1] = state.voices[x].block.samples[15]


\* C32: a write to the DSP data port 0xF3 while the index selects ENDX leaves
\* ENDX at 0 whatever the value written; while no sample is produced ENDX
\* stays 0, and a read of 0xF3 with the index on ENDX returns 0
C32_EndxWriteClears ==
    [][/\ EndxWriteStep => state'.dsp_registers[SPC_DSP_ENDX] = 0
       /\ (state.dsp_registers[SPC_DSP_ENDX] = 0 /\ state'.sample_counter = state.sample_counter)
            => /\ state'.dsp_registers[SPC_DSP_ENDX] = 0
               /\ (last_op'.op = "read" /\ last_op'.addr = \hF3
                        /\ state.current_dsp_register = SPC_DSP_ENDX)
                    => last_ret' = 0]_vars

\* ENDX was selected, written with a value other than 0 and read back as 0
C32_Witness ==
    /\ state.current_dsp_register = SPC_DSP_ENDX
    /\ Ram(state, \hF3) # 0
    /\ last_op.op = "read"
    /\ last_op.addr = \hF3
    /\ last_ret = 0


\* The DSP registers a voice writes while it produces a sample
SampleOutRegs ==
    {SPC_DSP_ENDX} \cup {x * 16 + SPC_DSP_VxENVX : x \in Voices}
                   \cup {x * 16 + SPC_DSP_VxOUTX : x \in Voices}

\* C33: an iteration that produces a sample with the timers stopped changes,
\* besides voice state, only VxENVX, VxOUTX and ENDX: RAM, the CPU registers,
\* the timers, the DSP register index and every other DSP register keep
\* their values, wherever the sample directory lies
C33_SampleChangesVoicesOnly ==
    [][SampleStep
        => /\ state'.ram = state.ram
           /\ state'.regs = state.regs
           /\ state'.timers = state.timers
           /\ state'.current_dsp_register = state.current_dsp_register
           /\ \A r \in DOMAIN state.dsp_registers :
                r \notin SampleOutRegs => state'.dsp_registers[r] = state.dsp_registers[r]
      ]_vars


\* The address of the $dp+X operand of the instruction at PC if the sum
\* wraps inside the direct page
WrappedDpX ==
    get_direct_page_addr(state, (Ram(state, state.regs.pc + 1) + state.regs.x) % 256)

\* C34: CMP A,$dp+X and ADC A,$dp+X take their memory operand at direct-page
\* base + ((operand + X) mod 256): the flags of the compare, and the sum and
\* the flags of the addition, are those of A with the byte at that address
C34_DpIndexedStaysInPage ==
    [][/\ RunsNow(\h74)
            => state'.regs.psw = do_cmp(state, state.regs.a, read_byte(state, WrappedDpX).val).regs.psw
       /\ RunsNow(\h94)
            => /\ state'.regs.a = do_adc(state, state.regs.a, read_byte(state, WrappedDpX).val).val
               /\ state'.regs.psw = do_adc(state, state.regs.a, read_byte(state, WrappedDpX).val).s.regs.psw
      ]_vars


\* CLRP, SETP, CLRC, SETC, NOTC and NOP
FlagOpcodes == {\h20, \h40, \h60, \h80, \hED, \h00}

\* CLRV, EI, DI, SLEEP, STOP and BRK
ControlOpcodes == {\hE0, \hA0, \hC0, \hEF, \hFF, \h0F}

\* C35: CLRV, EI, DI, SLEEP, STOP and BRK, like CLRP, SETP, CLRC, SETC, NOTC
\* and NOP, are executed with a positive cycle cost: the step that finds one
\* of them at PC does not end the process
C35_ControlOpcodesRun ==
    [][Ram(state, state.regs.pc) \in FlagOpcodes \cup ControlOpcodes
        => last_op'.op = "exec" /\ state'.cycle > state.cycle]_vars


\* C36: the current DSP register index is in 0..127 in every state, from
\* every snapshot, and the assertion of dsp_register_write never fails
C36_IndexInRange ==
    /\ state.current_dsp_register \in 0 .. 127
    /\ last_op.op # "abort"


\* This step runs an instruction that keys voice x on (a write to KON with
\* the bit of x set)
KeysOn(x) ==
    /\ state.current_dsp_register = SPC_DSP_KON
    /\ last_op'.op = "write"
    /\ last_op'.addr = \hF3
    /\ BitSet(last_op'.val, x)

\* C37: in one iteration the phase of a voice stays, or moves from Attack to
\* Decay, from Decay to Sustain, or to Release; only in an iteration that
\* keys the voice on does it come to Attack, or to Decay by the sample that
\* follows the key-on
C37_PhaseOrder ==
    [][\A x \in Voices :
            state'.voices[x].adsr.cur_phase # state.voices[x].adsr.cur_phase
            => \/ state'.voices[x].adsr.cur_phase = SPC_VOICE_RELEASE
               \/ /\ state.voices[x].adsr.cur_phase = SPC_VOICE_ATTACK
                  /\ state'.voices[x].adsr.cur_phase = SPC_VOICE_DECAY
               \/ /\ state.voices[x].adsr.cur_phase = SPC_VOICE_DECAY
                  /\ state'.voices[x].adsr.cur_phase = SPC_VOICE_SUSTAIN
               \/ /\ KeysOn(x)
                  /\ state'.voices[x].adsr.cur_phase \in {SPC_VOICE_ATTACK, SPC_VOICE_DECAY}
      ]_vars

\* Voice 2 has gone through Attack and Decay to Sustain and voice 0 is in
\* Release, after more than four samples
C37_Witness ==
    /\ state.voices[2].enabled = 1
    /\ state.voices[2].adsr.cur_phase = SPC_VOICE_SUSTAIN
    /\ state.voices[0].adsr.cur_phase = SPC_VOICE_RELEASE
    /\ state.sample_counter > 4


\* C38: MOV Y,$aaaa loads Y with the byte at the address, sets N and Z from
\* it, advances PC by 3 and the cycle counter by 4, and leaves every other
\* flag, the carry included, and A, X, SP and RAM as they were; so does
\* MOV X,$aaaa with X
C38_MovYChangesYOnly ==
    [][/\ RunsNow(\hEC)
            => /\ state'.regs = adjust_flags([regs |->
                      [state.regs EXCEPT !.y = Ram(state, \h0020), !.pc = state.regs.pc + 3]],
                      Ram(state, \h0020)).regs
               /\ state'.cycle = state.cycle + 4
               /\ state'.ram = state.ram
       /\ RunsNow(\hE9)
            => /\ state'.regs = adjust_flags([regs |->
                      [state.regs EXCEPT !.x = Ram(state, \h0020), !.pc = state.regs.pc + 3]],
                      Ram(state, \h0020)).regs
               /\ state'.cycle = state.cycle + 4
               /\ state'.ram = state.ram
      ]_vars


\* C39: DIV YA,X completes from every register state, X = 0 included: the
\* step that finds it at PC executes it, leaves bytes in A and Y, advances
\* PC by 1 and charges its 12 cycles; the process does not fault
C39_DivAlwaysCompletes ==
    [][Ram(state, state.regs.pc) = \h9E
        => /\ last_op'.op = "exec"
           /\ state'.regs.a \in 0 .. 255
           /\ state'.regs.y \in 0 .. 255
           /\ state'.regs.pc = state.regs.pc + 1
           /\ state'.cycle = state.cycle + 12]_vars


====
